---- MODULE Spec2Model ----
(***************************************************************************)
(* The capture worker of slop-ocr (swift/Sources/OCRCli/main.swift): the   *)
(* stdin reader thread, the main dispatch queue, the content sharing       *)
(* picker callbacks and the asynchronous capture tasks; and the bridge of  *)
(* the coordinator to that worker (src/main/ocr-bridge.ts): the framing of *)
(* the worker's output, the start, pick and scan calls with their timers,  *)
(* and the coordinator's hotkey handlers.                                  *)
(***************************************************************************)
EXTENDS Integers, Sequences, FiniteSets, TLC

----------------------------------------------------------------------------
(* Swift optionals: nil is the empty set, a value v is {v}. *)
None == {}
Some(v) == {v}
Get(o) == CHOOSE v \in o : TRUE

(* Bounds of the model: the input lines read in a run, and in the longer   *)
(* runs of LongSpec.                                                       *)
MaxLines == 2
MaxLongLines == 3

(* What the picker can hand back (SCContentFilter), and the window numbers *)
(* the window server knows.                                                *)
Filters == {"filterA", "filterB"}
WindowIDs == {41, 42}
(* The window each filter shows. *)
WindowOf(f) == IF f = "filterA" THEN 41 ELSE 42

----------------------------------------------------------------------------
(* One line of standard input.  obj is None for text that is no JSON       *)
(* object; otherwise the object's action, languages and saveTo keys, each  *)
(* present or absent.                                                      *)
Object(action, languages, saveTo) ==
    [empty |-> FALSE,
     obj   |-> Some([action |-> action, languages |-> languages, saveTo |-> saveTo])]
EmptyLine == [empty |-> TRUE, obj |-> None]
NotJSON == [empty |-> FALSE, obj |-> None]
InputLines ==
    { EmptyLine,
      NotJSON,
      Object(None, None, None),
      Object(Some("pick"), None, None),
      Object(Some("scan"), None, None),
      Object(Some("quit"), None, None),
      Object(Some("foo"), None, None) }

(* struct Command, decoded by JSONDecoder: nil when the text is no JSON    *)
(* object or the required key action is missing.  line is the number of    *)
(* the input line the command came from (history only, not in the code).   *)
DecodeCommand(text, n) ==
    IF text.obj = None THEN None
    ELSE IF Get(text.obj).action = None THEN None
    ELSE Some([action    |-> Get(Get(text.obj).action),
               languages |-> Get(text.obj).languages,
               saveTo    |-> Get(text.obj).saveTo,
               line      |-> n])

----------------------------------------------------------------------------
(* Mutant of sendError: the message is left out of the response. *)
sendErrorWithoutMessage(type, message) ==
    [type |-> type, success |-> FALSE, data |-> None, error |-> None]

(* struct Response and the two constructors every emission goes through.   *)
sendError(type, message) ==
    [type |-> type, success |-> FALSE, data |-> None, error |-> Some(message)]

sendSuccess(type, data) ==
    [type |-> type, success |-> TRUE, data |-> Some(data), error |-> None]

ReadyData == [version |-> "1.0.0"]

(* rect of a filter: filter.contentRect, the bounds known at selection.    *)
ContentRect(f) == [from |-> "contentRect", of |-> f]
(* bounds looked up in the window list for a window number.                *)
WindowListBounds(w) == [from |-> "windowList", of |-> w]

WindowSelectedData(windowID, f) ==
    [windowId |-> windowID, appName |-> None, windowTitle |-> None,
     bounds |-> Some(ContentRect(f))]

(* image stands for the captured CGImage (imageWidth, imageHeight).        *)
OCRData(image, observations, bounds) ==
    [image |-> image, observations |-> observations, bounds |-> Some(bounds)]

----------------------------------------------------------------------------
VARIABLES
    pc,               \* "launching", "running", "terminated"
    reader,           \* the readStdin thread: "idle", "reading", "eof"
    lines,            \* the input lines read so far (history)
    mainq,            \* blocks queued with DispatchQueue.main.async
    currentFilter,    \* AppDelegate.currentFilter
    currentWindowID,  \* AppDelegate.currentWindowID
    pendingCommand,   \* AppDelegate.pendingCommand
    pickerOpen,       \* the picker is presented and has not called back
    tasks,            \* the Task { } bodies started by executeScan
    stdout,           \* the responses printed so far
    origin,           \* per response: the input line and task it came from (history)
    waiting,          \* lines of the scans that opened the picker, until it calls back (history)
    dropped,          \* lines of the scans whose pending record a picker failure cleared (history)
    event             \* the step taken last (history)

workerVars == <<pc, reader, lines, mainq, currentFilter, currentWindowID,
                pendingCommand, pickerOpen, tasks, stdout, origin, waiting,
                dropped, event>>

(* The coordinator process: class OCRBridge and what it is fed. *)
VARIABLES
    stream,           \* the bytes the worker writes to its standard output (input of a framing run)
    delivered,        \* how many bytes of stream the data events have delivered
    emitted,          \* the responses emitted from stream so far (history)
    buffer,           \* OCRBridge.buffer
    process,          \* OCRBridge.process: "null" or "child"
    ready,            \* OCRBridge.ready
    listeners,        \* the 'response' listeners of the bridge, in registration order
    started,          \* the promise start() returned, with its 5 second timer
    calls,            \* the promises pick() and scan() returned, each with its timer
    coord,            \* init() of the coordinator: "init", "starting", "ready", "failed", "quit"
    shown,            \* the error texts put before the user (overlay, dialog)
    crashes,          \* the exit codes the close listener of init() treated as a crash
    uncaught,         \* an exception no handler caught was thrown in the coordinator
    child,            \* the worker process: "none", "running", "failed", "exited"
    sent,             \* the commands written to the worker's standard input
    unanswered,       \* the calls whose command the worker has not answered yet (history)
    dataEvents,       \* the number of 'data' events so far
    bevent            \* the step the coordinator took last (history)

bridgeVars == <<stream, delivered, emitted, buffer, process, ready, listeners,
                started, calls, coord, shown, crashes, uncaught, child, sent,
                unanswered, dataEvents, bevent>>

(* The overlay renderer (src/renderer/overlay/overlay.ts). *)
VARIABLES
    surface,          \* clientWidth and clientHeight of #ocr-container, in pixels
    container,        \* the children of #ocr-container, in document order
    rendered          \* the data and surface of the last renderOCRResults (history)

rendererVars == <<surface, container, rendered>>

(* A command on its way from the bridge to the worker. *)
VARIABLES
    written,          \* the Command last given to sendCommand (history)
    wire,             \* the characters written to the worker's standard input and not yet read
    decoded           \* what the worker decoded from the line it read last

codecVars == <<written, wire, decoded>>

vars == <<workerVars, bridgeVars, rendererVars, codecVars>>

Event(kind, line, action, task) ==
    [kind |-> kind, line |-> line, action |-> action, task |-> task]

Origin(line, task) == [line |-> line, task |-> task]

(* new OCRBridge(): no process, an empty buffer, not ready. *)
(* detail: of a 'close' event how the process ended, of a 'data' event     *)
(* what the chunk held.                                                    *)
BridgeEvent(kind, call, detail, responses) ==
    [kind |-> kind, call |-> call, detail |-> detail, responses |-> responses]

(* The coordinator before init() runs: new OCRBridge() has no process, an  *)
(* empty buffer and is not ready; nothing is registered or shown.          *)
CoordinatorInit ==
    /\ buffer = <<>>
    /\ process = "null"
    /\ ready = FALSE
    /\ listeners = <<>>
    /\ started = [state |-> "none", error |-> None, timer |-> None]
    /\ calls = <<>>
    /\ coord = "init"
    /\ shown = {}
    /\ crashes = {}
    /\ uncaught = FALSE
    /\ child = "none"
    /\ sent = <<>>
    /\ unanswered = {}
    /\ dataEvents = 0
    /\ bevent = BridgeEvent("init", 0, None, <<>>)

BridgeInit ==
    /\ stream = <<>>
    /\ delivered = 0
    /\ emitted = <<>>
    /\ CoordinatorInit

WorkerInit ==
    /\ pc = "launching"
    /\ reader = "idle"
    /\ lines = <<>>
    /\ mainq = <<>>
    /\ currentFilter = None
    /\ currentWindowID = None
    /\ pendingCommand = None
    /\ pickerOpen = FALSE
    /\ tasks = <<>>
    /\ stdout = <<>>
    /\ origin = <<>>
    /\ waiting = {}
    /\ dropped = {}
    /\ event = Event("init", 0, "", 0)

(* The overlay page as loaded: an empty container, not laid out yet. *)
RendererInit ==
    /\ surface = [width |-> 0, height |-> 0]
    /\ container = <<>>
    /\ rendered = None

CodecInit ==
    /\ written = None
    /\ wire = <<>>
    /\ decoded = None

Init == WorkerInit /\ BridgeInit /\ RendererInit /\ CodecInit

----------------------------------------------------------------------------
(* Mutant of applicationDidFinishLaunching: the reader is started and the  *)
(* ready message is never sent.                                            *)
LaunchWithoutReady ==
    /\ pc = "launching"
    /\ pc' = "running"
    /\ reader' = "reading"
    /\ UNCHANGED <<bridgeVars, rendererVars, codecVars>>
    /\ event' = Event("launch", 0, "", 0)
    /\ UNCHANGED <<lines, mainq, currentFilter, currentWindowID, pendingCommand,
                   pickerOpen, tasks, stdout, origin, waiting, dropped>>

(* applicationDidFinishLaunching: the ready message, then the reader.      *)
ApplicationDidFinishLaunching ==
    /\ pc = "launching"
    /\ pc' = "running"
    /\ stdout' = Append(stdout, sendSuccess("ready", ReadyData))
    /\ origin' = Append(origin, Origin(0, 0))
    /\ reader' = "reading"
    /\ UNCHANGED <<bridgeVars, rendererVars, codecVars>>
    /\ event' = Event("launch", 0, "", 0)
    /\ UNCHANGED <<lines, mainq, currentFilter, currentWindowID, pendingCommand,
                   pickerOpen, tasks, waiting, dropped>>

----------------------------------------------------------------------------
(* Mutant of readStdin: a line that does not decode is skipped like an     *)
(* empty one.                                                              *)
ReadLineBlocksSkippingBadLines(text, n) ==
    IF text.empty \/ DecodeCommand(text, n) = None THEN <<>>
    ELSE << [kind |-> "handleCommand", command |-> Get(DecodeCommand(text, n))] >>

(* readStdin, one turn of its loop: an empty line is skipped, a line that  *)
(* does not decode queues the error block, a command queues handleCommand. *)
ReadLineBlocks(text, n) ==
    IF text.empty THEN <<>>
    ELSE IF DecodeCommand(text, n) = None
         THEN << [kind |-> "sendError", line |-> n] >>
         ELSE << [kind |-> "handleCommand", command |-> Get(DecodeCommand(text, n))] >>

ReadLine(text, limit) ==
    /\ pc = "running"
    /\ reader = "reading"
    /\ Len(lines) < limit
    /\ lines' = Append(lines, text)
    /\ mainq' = mainq \o ReadLineBlocks(text, Len(lines) + 1)
    /\ UNCHANGED <<bridgeVars, rendererVars, codecVars>>
    /\ event' = Event("readLine", Len(lines) + 1, "", 0)
    /\ UNCHANGED <<pc, reader, currentFilter, currentWindowID, pendingCommand,
                   pickerOpen, tasks, stdout, origin, waiting, dropped>>

(* readLine() returned nil: stdin is closed, terminate is queued.          *)
ReadEOF ==
    /\ pc = "running"
    /\ reader = "reading"
    /\ reader' = "eof"
    /\ mainq' = Append(mainq, [kind |-> "terminate"])
    /\ UNCHANGED <<bridgeVars, rendererVars, codecVars>>
    /\ event' = Event("readEOF", 0, "", 0)
    /\ UNCHANGED <<pc, lines, currentFilter, currentWindowID, pendingCommand,
                   pickerOpen, tasks, stdout, origin, waiting, dropped>>

----------------------------------------------------------------------------
(* showPicker: the picker is made active and presented.                    *)
showPicker(open) == TRUE

(* A Task { } body started by executeScan.  filter is the value captured   *)
(* by the closure.  History: viaPicker tells who called executeScan, and   *)
(* waited whether the command was a scan waiting behind the picker.        *)
NewTask(command, f, viaPicker) ==
    [command |-> command, filter |-> f, stage |-> "capturing",
     image |-> None, bounds |-> None,
     viaPicker |-> viaPicker, waited |-> command.line \in waiting]

(* executeScan: without a filter the "No window selected" error, with one  *)
(* a new capture task.  The result is the new task list and output.        *)
executeScan(command, filter, viaPicker) ==
    IF filter = None
    THEN [tasks  |-> tasks,
          stdout |-> Append(stdout, sendError("scan", "No window selected")),
          origin |-> Append(origin, Origin(command.line, 0))]
    ELSE [tasks  |-> Append(tasks, NewTask(command, Get(filter), viaPicker)),
          stdout |-> stdout,
          origin |-> origin]

----------------------------------------------------------------------------
(* The main queue runs its blocks one at a time, in the order queued.      *)
MainBlock(kind) ==
    /\ pc = "running"
    /\ mainq # <<>>
    /\ Head(mainq).kind = kind

(* The action of the command the main queue runs next. *)
NextAction == Head(mainq).command.action

KnownActions == {"pick", "scan", "quit"}

(* handleCommand, case "pick". *)
HandlePick ==
    /\ MainBlock("handleCommand")
    /\ NextAction = "pick"
    /\ mainq' = Tail(mainq)
    /\ pickerOpen' = showPicker(pickerOpen)
    /\ UNCHANGED <<bridgeVars, rendererVars, codecVars>>
    /\ event' = Event("handleCommand", Head(mainq).command.line, "pick", 0)
    /\ UNCHANGED <<pc, reader, lines, currentFilter, currentWindowID, pendingCommand,
                   tasks, stdout, origin, waiting, dropped>>

(* Mutant of handleCommand, case "scan": the picker is shown whether or   *)
(* not a filter is set.                                                    *)
HandleScanAlwaysPicking ==
    /\ MainBlock("handleCommand")
    /\ NextAction = "scan"
    /\ LET command == Head(mainq).command
       IN  /\ mainq' = Tail(mainq)
           /\ pendingCommand' = Some(command)
           /\ pickerOpen' = showPicker(pickerOpen)
           /\ waiting' = waiting \cup {command.line}
           /\ UNCHANGED <<bridgeVars, rendererVars, codecVars>>
           /\ event' = Event("handleCommand", command.line, "scan", 0)
    /\ UNCHANGED <<pc, reader, lines, currentFilter, currentWindowID, tasks,
                   stdout, origin, dropped>>

(* handleCommand, case "scan". *)
HandleScan ==
    /\ MainBlock("handleCommand")
    /\ NextAction = "scan"
    /\ LET command == Head(mainq).command
           r == executeScan(command, currentFilter, FALSE)
       IN  /\ mainq' = Tail(mainq)
           /\ pendingCommand' = Some(command)
           /\ IF currentFilter # None
              THEN /\ tasks' = r.tasks
                   /\ stdout' = r.stdout
                   /\ origin' = r.origin
                   /\ UNCHANGED <<pickerOpen, waiting>>
              ELSE /\ pickerOpen' = showPicker(pickerOpen)
                   /\ waiting' = waiting \cup {command.line}
                   /\ UNCHANGED <<tasks, stdout, origin>>
           /\ UNCHANGED <<bridgeVars, rendererVars, codecVars>>
           /\ event' = Event("handleCommand", command.line, "scan", 0)
    /\ UNCHANGED <<pc, reader, lines, currentFilter, currentWindowID, dropped>>

(* Mutant of handleCommand, case "quit": the command is taken and the      *)
(* application is not terminated.                                          *)
HandleQuitIgnored ==
    /\ MainBlock("handleCommand")
    /\ NextAction = "quit"
    /\ mainq' = Tail(mainq)
    /\ UNCHANGED <<bridgeVars, rendererVars, codecVars>>
    /\ event' = Event("handleCommand", Head(mainq).command.line, "quit", 0)
    /\ UNCHANGED <<pc, reader, lines, currentFilter, currentWindowID, pendingCommand,
                   pickerOpen, tasks, stdout, origin, waiting, dropped>>

(* handleCommand, case "quit": NSApp.terminate ends the process. *)
HandleQuit ==
    /\ MainBlock("handleCommand")
    /\ NextAction = "quit"
    /\ mainq' = Tail(mainq)
    /\ pc' = "terminated"
    /\ UNCHANGED <<bridgeVars, rendererVars, codecVars>>
    /\ event' = Event("handleCommand", Head(mainq).command.line, "quit", 0)
    /\ UNCHANGED <<reader, lines, currentFilter, currentWindowID, pendingCommand,
                   pickerOpen, tasks, stdout, origin, waiting, dropped>>

(* Mutant of handleCommand, default: an unknown action is ignored. *)
HandleUnknownIgnored ==
    /\ MainBlock("handleCommand")
    /\ NextAction \notin KnownActions
    /\ mainq' = Tail(mainq)
    /\ UNCHANGED <<bridgeVars, rendererVars, codecVars>>
    /\ event' = Event("handleCommand", Head(mainq).command.line, NextAction, 0)
    /\ UNCHANGED <<pc, reader, lines, currentFilter, currentWindowID, pendingCommand,
                   pickerOpen, tasks, stdout, origin, waiting, dropped>>

(* handleCommand, default. *)
HandleUnknown ==
    /\ MainBlock("handleCommand")
    /\ NextAction \notin KnownActions
    /\ LET command == Head(mainq).command
       IN  /\ mainq' = Tail(mainq)
           /\ stdout' = Append(stdout,
                               sendError("error", "Unknown action: " \o command.action))
           /\ origin' = Append(origin, Origin(command.line, 0))
           /\ UNCHANGED <<bridgeVars, rendererVars, codecVars>>
           /\ event' = Event("handleCommand", command.line, command.action, 0)
    /\ UNCHANGED <<pc, reader, lines, currentFilter, currentWindowID, pendingCommand,
                   pickerOpen, tasks, waiting, dropped>>

(* The block readStdin queues for a line that does not decode. *)
SendInvalidJSON ==
    /\ MainBlock("sendError")
    /\ mainq' = Tail(mainq)
    /\ stdout' = Append(stdout, sendError("error", "Invalid JSON command"))
    /\ origin' = Append(origin, Origin(Head(mainq).line, 0))
    /\ UNCHANGED <<bridgeVars, rendererVars, codecVars>>
    /\ event' = Event("invalidLine", Head(mainq).line, "", 0)
    /\ UNCHANGED <<pc, reader, lines, currentFilter, currentWindowID, pendingCommand,
                   pickerOpen, tasks, waiting, dropped>>

(* The block readStdin queues when stdin is closed. *)
TerminateOnEOF ==
    /\ MainBlock("terminate")
    /\ mainq' = Tail(mainq)
    /\ pc' = "terminated"
    /\ UNCHANGED <<bridgeVars, rendererVars, codecVars>>
    /\ event' = Event("terminate", 0, "", 0)
    /\ UNCHANGED <<reader, lines, currentFilter, currentWindowID, pendingCommand,
                   pickerOpen, tasks, stdout, origin, waiting, dropped>>

----------------------------------------------------------------------------
(* SCContentSharingPickerObserver.  The callbacks run on the main thread   *)
(* while the picker is presented.                                          *)
PickerCallback ==
    /\ pc = "running"
    /\ pickerOpen

(* Mutant of contentSharingPicker(_:didCancelFor:): the cancellation also  *)
(* forgets the target.                                                     *)
DidCancelForgettingTarget ==
    /\ PickerCallback
    /\ pickerOpen' = FALSE
    /\ stdout' = Append(stdout, sendError("pick", "User cancelled window selection"))
    /\ origin' = Append(origin, Origin(0, 0))
    /\ pendingCommand' = None
    /\ currentFilter' = None
    /\ currentWindowID' = None
    /\ dropped' = dropped \cup waiting
    /\ waiting' = {}
    /\ UNCHANGED <<bridgeVars, rendererVars, codecVars>>
    /\ event' = Event("didCancel", 0, "", 0)
    /\ UNCHANGED <<pc, reader, lines, mainq, tasks>>

(* contentSharingPicker(_:didCancelFor:) *)
DidCancel ==
    /\ PickerCallback
    /\ pickerOpen' = FALSE
    /\ stdout' = Append(stdout, sendError("pick", "User cancelled window selection"))
    /\ origin' = Append(origin, Origin(0, 0))
    /\ pendingCommand' = None
    /\ dropped' = dropped \cup waiting
    /\ waiting' = {}
    /\ UNCHANGED <<bridgeVars, rendererVars, codecVars>>
    /\ event' = Event("didCancel", 0, "", 0)
    /\ UNCHANGED <<pc, reader, lines, mainq, currentFilter, currentWindowID, tasks>>

(* Mutant of contentSharingPickerStartDidFailWithError: the pending record *)
(* is not cleared.                                                         *)
StartDidFailKeepingPending ==
    /\ PickerCallback
    /\ pickerOpen' = FALSE
    /\ stdout' = Append(stdout, sendError("pick", "Picker failed to start: no display"))
    /\ origin' = Append(origin, Origin(0, 0))
    /\ dropped' = dropped \cup waiting
    /\ waiting' = {}
    /\ UNCHANGED <<bridgeVars, rendererVars, codecVars>>
    /\ event' = Event("startDidFail", 0, "", 0)
    /\ UNCHANGED <<pc, reader, lines, mainq, currentFilter, currentWindowID, tasks,
                   pendingCommand>>

(* contentSharingPickerStartDidFailWithError *)
StartDidFail ==
    /\ PickerCallback
    /\ pickerOpen' = FALSE
    /\ stdout' = Append(stdout, sendError("pick", "Picker failed to start: no display"))
    /\ origin' = Append(origin, Origin(0, 0))
    /\ pendingCommand' = None
    /\ dropped' = dropped \cup waiting
    /\ waiting' = {}
    /\ UNCHANGED <<bridgeVars, rendererVars, codecVars>>
    /\ event' = Event("startDidFail", 0, "", 0)
    /\ UNCHANGED <<pc, reader, lines, mainq, currentFilter, currentWindowID, tasks>>

(* findWindowID(matching:): the on-screen window whose bounds match the    *)
(* rect of the filter within the tolerance, or nil when none does.         *)
findWindowID(f) == {None, Some(WindowOf(f))}

(* Mutant of contentSharingPicker(_:didUpdateWith:for:): the pending       *)
(* record is cleared and its scan is not executed.                         *)
DidUpdateWithoutScan(f, windowID) ==
    /\ PickerCallback
    /\ pickerOpen' = FALSE
    /\ currentFilter' = Some(f)
    /\ currentWindowID' = windowID
    /\ stdout' = Append(stdout, sendSuccess("pick", WindowSelectedData(windowID, f)))
    /\ origin' = Append(origin, Origin(0, 0))
    /\ pendingCommand' = None
    /\ waiting' = {}
    /\ UNCHANGED <<bridgeVars, rendererVars, codecVars>>
    /\ event' = Event("didUpdate", 0, "", 0)
    /\ UNCHANGED <<pc, reader, lines, mainq, tasks, dropped>>

(* contentSharingPicker(_:didUpdateWith:for:) for the filter f, windowID   *)
(* being what findWindowID returns.                                        *)
DidUpdateWith(f, windowID) ==
    /\ PickerCallback
    /\ pickerOpen' = FALSE
    /\ currentFilter' = Some(f)
    /\ currentWindowID' = windowID
    /\ LET picked == Append(stdout, sendSuccess("pick", WindowSelectedData(windowID, f)))
           r == executeScan(Get(pendingCommand), Some(f), TRUE)
       IN  IF pendingCommand # None
           THEN /\ tasks' = r.tasks
                /\ stdout' = picked \o SubSeq(r.stdout, Len(stdout) + 1, Len(r.stdout))
                /\ origin' = Append(origin, Origin(0, 0))
                                \o SubSeq(r.origin, Len(origin) + 1, Len(r.origin))
                /\ pendingCommand' = None
           ELSE /\ stdout' = picked
                /\ origin' = Append(origin, Origin(0, 0))
                /\ UNCHANGED <<tasks, pendingCommand>>
    /\ waiting' = {}
    /\ UNCHANGED <<bridgeVars, rendererVars, codecVars>>
    /\ event' = Event("didUpdate", 0, "", 0)
    /\ UNCHANGED <<pc, reader, lines, mainq, dropped>>

----------------------------------------------------------------------------
(* The body of the Task executeScan starts.  The process must be alive.    *)
TaskAt(i, stage) ==
    /\ pc = "running"
    /\ i \in DOMAIN tasks
    /\ tasks[i].stage = stage

(* getCurrentWindowBounds: nil without a window number, or when the window *)
(* list has no such window any more; else that window's bounds now.        *)
getCurrentWindowBounds ==
    IF currentWindowID = None
    THEN {None}
    ELSE {None, Some(WindowListBounds(Get(currentWindowID)))}

(* Mutant of the bounds step of executeScan: when getCurrentWindowBounds   *)
(* returns nil the scan is reported as failed instead of falling back to   *)
(* the rect of the filter.                                                 *)
CaptureImageFailingWithoutBounds(i, fresh) ==
    /\ TaskAt(i, "capturing")
    /\ fresh \in getCurrentWindowBounds
    /\ IF fresh # None
       THEN /\ tasks' = [tasks EXCEPT
                           ![i].stage = "bounded",
                           ![i].image = Some(tasks[i].filter),
                           ![i].bounds = fresh]
            /\ UNCHANGED <<stdout, origin>>
       ELSE /\ tasks' = [tasks EXCEPT ![i].stage = "done"]
            /\ stdout' = Append(stdout, sendError("scan", "Failed: no bounds"))
            /\ origin' = Append(origin, Origin(tasks[i].command.line, i))
    /\ UNCHANGED <<bridgeVars, rendererVars, codecVars>>
    /\ event' = Event("captureImage", tasks[i].command.line, "", i)
    /\ UNCHANGED <<pc, reader, lines, mainq, currentFilter, currentWindowID,
                   pendingCommand, pickerOpen, waiting, dropped>>

(* SCScreenshotManager.captureImage returned an image of the filter this   *)
(* task captured when it was started (off the main thread, touching no     *)
(* shared state), and the task's next step ran on the main actor:          *)
(* MainActor.run { getCurrentWindowBounds() ?? the rect of the filter }    *)
CaptureImage(i, fresh) ==
    /\ TaskAt(i, "capturing")
    /\ fresh \in getCurrentWindowBounds
    /\ tasks' = [tasks EXCEPT
                   ![i].stage = "bounded",
                   ![i].image = Some(tasks[i].filter),
                   ![i].bounds = IF fresh # None THEN fresh
                                 ELSE Some(ContentRect(tasks[i].filter))]
    /\ UNCHANGED <<bridgeVars, rendererVars, codecVars>>
    /\ event' = Event("captureImage", tasks[i].command.line, "", i)
    /\ UNCHANGED <<pc, reader, lines, mainq, currentFilter, currentWindowID,
                   pendingCommand, pickerOpen, stdout, origin, waiting, dropped>>

(* Mutant of the catch block of executeScan: a failed capture also forgets *)
(* the target.                                                             *)
CaptureThrowsForgettingTarget(i) ==
    /\ TaskAt(i, "capturing")
    /\ tasks' = [tasks EXCEPT ![i].stage = "done"]
    /\ stdout' = Append(stdout, sendError("scan", "Failed: capture error"))
    /\ origin' = Append(origin, Origin(tasks[i].command.line, i))
    /\ currentFilter' = None
    /\ currentWindowID' = None
    /\ UNCHANGED <<bridgeVars, rendererVars, codecVars>>
    /\ event' = Event("captureThrows", tasks[i].command.line, "", i)
    /\ UNCHANGED <<pc, reader, lines, mainq, pendingCommand, pickerOpen, waiting,
                   dropped>>

(* captureImage threw: the catch block reports the failure on the main actor. *)
CaptureThrows(i) ==
    /\ TaskAt(i, "capturing")
    /\ tasks' = [tasks EXCEPT ![i].stage = "done"]
    /\ stdout' = Append(stdout, sendError("scan", "Failed: capture error"))
    /\ origin' = Append(origin, Origin(tasks[i].command.line, i))
    /\ UNCHANGED <<bridgeVars, rendererVars, codecVars>>
    /\ event' = Event("captureThrows", tasks[i].command.line, "", i)
    /\ UNCHANGED <<pc, reader, lines, mainq, currentFilter, currentWindowID,
                   pendingCommand, pickerOpen, waiting, dropped>>

(* What the recognizer returns when it does not throw. *)
Observations == {<<"line of text">>}

(* performOCR: handler.perform throws, or the observations are sent.       *)
performOCR(image, bounds, outcome) ==
    IF outcome = None
    THEN sendError("scan", "OCR failed: recognition error")
    ELSE sendSuccess("scan", OCRData(image, Get(outcome), bounds))

(* MainActor.run { performOCR(cgImage:languages:bounds:) } *)
PerformOCR(i, outcome) ==
    /\ TaskAt(i, "bounded")
    /\ tasks' = [tasks EXCEPT ![i].stage = "done"]
    /\ stdout' = Append(stdout, performOCR(Get(tasks[i].image), Get(tasks[i].bounds), outcome))
    /\ origin' = Append(origin, Origin(tasks[i].command.line, i))
    /\ UNCHANGED <<bridgeVars, rendererVars, codecVars>>
    /\ event' = Event("performOCR", tasks[i].command.line, "", i)
    /\ UNCHANGED <<pc, reader, lines, mainq, currentFilter, currentWindowID,
                   pendingCommand, pickerOpen, waiting, dropped>>

----------------------------------------------------------------------------
(* A run starts at most one task per line read, and one more. *)
MaxTasks == MaxLongLines + 1

NextWithin(limit) ==
    \/ ApplicationDidFinishLaunching
    \/ \E text \in InputLines : ReadLine(text, limit)
    \/ ReadEOF
    \/ HandlePick
    \/ HandleScan
    \/ HandleQuit
    \/ HandleUnknown
    \/ SendInvalidJSON
    \/ TerminateOnEOF
    \/ DidCancel
    \/ StartDidFail
    \/ \E f \in Filters : \E windowID \in findWindowID(f) : DidUpdateWith(f, windowID)
    \/ \E i \in 1..MaxTasks, fresh \in {None} \cup {Some(WindowListBounds(w)) : w \in WindowIDs} :
          CaptureImage(i, fresh)
    \/ \E i \in 1..MaxTasks : CaptureThrows(i)
    \/ \E i \in 1..MaxTasks, outcome \in {None} \cup {Some(o) : o \in Observations} :
          PerformOCR(i, outcome)

Next == NextWithin(MaxLines)

Spec == Init /\ [][Next]_vars

(* The same worker reading up to MaxLongLines lines. *)
LongNext == NextWithin(MaxLongLines)

LongSpec == Init /\ [][LongNext]_vars

----------------------------------------------------------------------------
(* The main run loop runs every block it is given while the process lives. *)
MainStep ==
    \/ HandlePick
    \/ HandleScan
    \/ HandleQuit
    \/ HandleUnknown
    \/ SendInvalidJSON
    \/ TerminateOnEOF

(* The next step of the Task body i. *)
TaskStep(i) ==
    \/ \E fresh \in getCurrentWindowBounds : CaptureImage(i, fresh)
    \/ CaptureThrows(i)
    \/ \E outcome \in {None} \cup {Some(o) : o \in Observations} : PerformOCR(i, outcome)

FairSpec ==
    /\ Init
    /\ [][Next]_vars
    /\ WF_vars(MainStep)

----------------------------------------------------------------------------
(* The worker's output as the bridge receives it (ocr-bridge.ts).  Bytes   *)
(* on the pipe: the newline, the space, the braces that open and close the *)
(* JSON text of one object, the ASCII text of a Response's members (one    *)
(* token for the whole run of bytes), and the two bytes of a character     *)
(* outside ASCII, which the worker's encoder writes unescaped.             *)
NL == [byte |-> "\n"]
SP == [byte |-> " "]
LBrace == [byte |-> "{"]
RBrace == [byte |-> "}"]
Lead == [byte |-> "lead"]
Cont == [byte |-> "cont"]
Members(r) == [byte |-> "members", of |-> r]
(* Characters of a decoded string that are no bytes: the character whose   *)
(* two bytes are Lead, Cont, and U+FFFD.                                   *)
Wide == [byte |-> "wide"]
Replacement == [byte |-> "U+FFFD"]

(* Buffer.toString(): UTF-8 decoding of one chunk on its own.  A lead byte *)
(* without its continuation in the chunk, and a continuation byte without  *)
(* its lead, each decode to U+FFFD.                                        *)
RECURSIVE toString(_)
toString(data) ==
    IF data = <<>> THEN <<>>
    ELSE IF Head(data) = Lead /\ Len(data) >= 2 /\ data[2] = Cont
         THEN <<Wide>> \o toString(Tail(Tail(data)))
    ELSE IF Head(data) \in {Lead, Cont}
         THEN <<Replacement>> \o toString(Tail(data))
    ELSE <<Head(data)>> \o toString(Tail(data))

(* String.split('\n'): the pieces between the newlines, at least one. *)
RECURSIVE split(_)
split(str) ==
    IF \A i \in DOMAIN str : str[i] # NL THEN <<str>>
    ELSE LET i == CHOOSE j \in DOMAIN str :
                      str[j] = NL /\ \A k \in 1..(j - 1) : str[k] # NL
         IN  <<SubSeq(str, 1, i - 1)>> \o split(SubSeq(str, i + 1, Len(str)))

(* String.trim() *)
RECURSIVE trim(_)
trim(str) ==
    IF str = <<>> THEN <<>>
    ELSE IF Head(str) = SP THEN trim(Tail(str))
    ELSE IF str[Len(str)] = SP THEN trim(SubSeq(str, 1, Len(str) - 1))
    ELSE str

(* JSON.parse(line) for the texts of the model: white space around the     *)
(* value is allowed, the value is an object, "{" members "}", and members  *)
(* hold no brace.  The result is the members; None stands for the          *)
(* SyntaxError the call throws.                                            *)
JSONParse(line) ==
    LET text == trim(line)
        inner == SubSeq(text, 2, Len(text) - 1)
    IN  IF /\ Len(text) >= 2
           /\ text[1] = LBrace
           /\ text[Len(text)] = RBrace
           /\ \A i \in DOMAIN inner : inner[i] \notin {LBrace, RBrace}
        THEN Some(inner)
        ELSE None

(* The loop of processBuffer over the complete lines: a line that is blank *)
(* after trim is skipped, a line that does not parse is logged and         *)
(* skipped, every other line is emitted as a response.                     *)
(* Mutant of the loop of processBuffer: a line that does not parse ends   *)
(* the loop, the lines after it are lost.                                  *)
RECURSIVE ParsedLinesUntilError(_)
ParsedLinesUntilError(ls) ==
    IF ls = <<>> THEN <<>>
    ELSE IF trim(Head(ls)) = <<>> THEN ParsedLinesUntilError(Tail(ls))
    ELSE IF JSONParse(Head(ls)) = None THEN <<>>
    ELSE <<Get(JSONParse(Head(ls)))>> \o ParsedLinesUntilError(Tail(ls))

RECURSIVE ParsedLines(_)
ParsedLines(ls) ==
    IF ls = <<>> THEN <<>>
    ELSE IF trim(Head(ls)) = <<>> THEN ParsedLines(Tail(ls))
    ELSE IF JSONParse(Head(ls)) = None THEN ParsedLines(Tail(ls))
    ELSE <<Get(JSONParse(Head(ls)))>> \o ParsedLines(Tail(ls))

(* processBuffer: the text after the last newline stays in the buffer, the *)
(* lines before it are parsed and emitted in order.                        *)
processBuffer(buf) ==
    LET ls == split(buf)
    IN  [buffer    |-> ls[Len(ls)],
         responses |-> ParsedLines(SubSeq(ls, 1, Len(ls) - 1))]

(* The stdout 'data' handler: the chunk is decoded and appended to the     *)
(* buffer, then processBuffer runs.                                        *)
OnStdoutData(data) == processBuffer(buffer \o toString(data))

----------------------------------------------------------------------------
(* Framing runs: one output stream of the worker, cut into chunks in every *)
(* way.  No call is pending, so the emitted responses have no listener.    *)
MaxStream == 5

Bytes == {NL, SP, LBrace, RBrace, Lead, Cont}

Streams == UNION {[1..n -> Bytes] : n \in 1..MaxStream}

FramingInit ==
    /\ WorkerInit
    /\ CoordinatorInit
    /\ RendererInit
    /\ CodecInit
    /\ stream \in Streams
    /\ delivered = 0
    /\ emitted = <<>>

(* One 'data' event carrying the next n bytes of the stream. *)
StdoutChunk(n) ==
    /\ delivered + n <= Len(stream)
    /\ LET r == OnStdoutData(SubSeq(stream, delivered + 1, delivered + n))
       IN  /\ buffer' = r.buffer
           /\ emitted' = emitted \o r.responses
    /\ delivered' = delivered + n
    /\ UNCHANGED <<stream, workerVars, rendererVars, codecVars, process, ready,
                   listeners, started, calls, coord, shown, crashes, uncaught,
                   child, sent, unanswered, dataEvents, bevent>>

FramingNext == \E n \in 1..MaxStream : StdoutChunk(n)

FramingSpec == FramingInit /\ [][FramingNext]_vars

----------------------------------------------------------------------------
(* The coordinator (ocr-bridge.ts): OCRBridge with its calls and timers,   *)
(* init() and the hotkey handlers.  Time is counted in milliseconds and    *)
(* observed at the multiples of the shortest timeout.                      *)
StartupTimeoutMs == 5000
PickTimeoutMs == 60000
ScanTimeoutMs == 30000

(* Bounds: the hotkey presses of a run and the 'data' events of a run. *)
MaxCalls == 2
MaxData == 3

(* JavaScript values: null, and a present value. *)
Null == [js |-> "null"]
Value(v) == [js |-> "value", v |-> v]
(* member ?? null *)
NullIfAbsent(member) == IF member = None THEN Null ELSE Value(Get(member))
(* text || fallback *)
OrElse(text, fallback) ==
    IF text = None \/ text = Some("") THEN fallback ELSE Get(text)

(* Mutant of the cancellation filter: no message is taken for one. *)
IncludesNothing(errorMsg) == FALSE

(* errorMsg.includes('cancelled'), for the messages of the model. *)
IncludesCancelled(errorMsg) ==
    errorMsg \in {"User cancelled window selection", "Window selection cancelled"}

(* What pick() resolves with. *)
WindowSelection(data) ==
    [windowId    |-> NullIfAbsent(data.windowId),
     appName     |-> NullIfAbsent(data.appName),
     windowTitle |-> NullIfAbsent(data.windowTitle),
     bounds      |-> NullIfAbsent(data.bounds)]

(* What scan() resolves with. *)
RecognitionResult(data) ==
    [image |-> data.image, observations |-> data.observations, bounds |-> data.bounds]

(* The CLIResponse a parsed line is: the members of the object, or None    *)
(* for an object that has none of them (no type, no success).              *)
CLIResponse(members) ==
    IF members # <<>> /\ members[1].byte = "members"
    THEN Some(members[1].of)
    ELSE None

(* The promise of one pick() or scan() call with its timer.  age is the    *)
(* time the call has been pending (history).                               *)
NewCall(kind, timeout) ==
    [kind |-> kind, state |-> "pending", value |-> None, error |-> None,
     timer |-> Some(timeout), age |-> 0]

Listener(kind, call) == [kind |-> kind, call |-> call]

(* The part of the coordinator the listeners and timers work on. *)
Coordinator ==
    [ready |-> ready, started |-> started, listeners |-> listeners,
     calls |-> calls, coord |-> coord, shown |-> shown]

(* removeListener / clearTimeout *)
removeListener(b, l) ==
    [b EXCEPT !.listeners = SelectSeq(b.listeners, LAMBDA x : x # l)]
clearTimeout(b, c) == [b EXCEPT !.calls[c].timer = None]

(* windowManager.showError: the overlay must exist. *)
showError(b, message) ==
    IF b.coord = "ready" THEN [b EXCEPT !.shown = @ \cup {message}] ELSE b

(* resolve(value) of call c, then the hotkey handler that awaits it; a     *)
(* promise settles once.                                                   *)
Resolve(b, c, value) ==
    IF b.calls[c].state # "pending" THEN b
    ELSE [b EXCEPT !.calls[c].state = "resolved",
                   !.calls[c].value = Some(value),
                   !.calls[c].age = 0]

(* reject(new Error(message)) of call c, then the catch block of the       *)
(* hotkey handler that awaits it: the message is shown unless it includes  *)
(* 'cancelled'.                                                            *)
Reject(b, c, message) ==
    IF b.calls[c].state # "pending" THEN b
    ELSE LET b1 == [b EXCEPT !.calls[c].state = "rejected",
                             !.calls[c].error = Some(message),
                             !.calls[c].age = 0]
         IN  IF IncludesCancelled(message) THEN b1 ELSE showError(b1, message)

(* resolve() of start(), then init() after its await: the close and error  *)
(* listeners, the overlay and the shortcuts.                               *)
ResolveStart(b) ==
    IF b.started.state # "pending" THEN b
    ELSE [b EXCEPT !.started.state = "resolved",
                   !.coord = IF @ = "starting" THEN "ready" ELSE @]

(* reject(err) of start(), then the catch block of init(): the error box   *)
(* and app.quit().                                                         *)
RejectStart(b, message) ==
    IF b.started.state # "pending" THEN b
    ELSE [b EXCEPT !.started.state = "rejected",
                   !.started.error = Some(message),
                   !.shown = @ \cup {"OCR CLI Error"},
                   !.coord = IF @ = "starting" THEN "failed" ELSE @]

(* Mutant of onReady: a response of any type makes the bridge ready. *)
onAnyResponse(b, l, response) ==
    ResolveStart(removeListener([b EXCEPT !.ready = TRUE], l))

(* onReady in start() *)
onReady(b, l, response) ==
    IF response.type = "ready"
    THEN ResolveStart(removeListener([b EXCEPT !.ready = TRUE], l))
    ELSE b

(* Mutant of the handler in pick(): it reacts to a response of any type. *)
pickHandlerOfAnyType(b, l, response) ==
    LET b1 == removeListener(clearTimeout(b, l.call), l)
    IN  IF response.success /\ response.data # None /\ response.type = "pick"
        THEN Resolve(b1, l.call, WindowSelection(Get(response.data)))
        ELSE Reject(b1, l.call, OrElse(response.error, "Pick failed"))

(* handler in pick() *)
pickHandler(b, l, response) ==
    IF response.type = "pick"
    THEN LET b1 == removeListener(clearTimeout(b, l.call), l)
         IN  IF response.success /\ response.data # None
             THEN Resolve(b1, l.call, WindowSelection(Get(response.data)))
             ELSE Reject(b1, l.call, OrElse(response.error, "Pick failed"))
    ELSE b

(* Mutant of the handler in scan(): a successful pick response restarts    *)
(* the timer of the scan.                                                  *)
scanHandlerRestartingTimer(b, l, response) ==
    IF response.type = "pick"
    THEN IF ~response.success
         THEN Reject(removeListener(clearTimeout(b, l.call), l), l.call,
                     OrElse(response.error, "Window selection cancelled"))
         ELSE [b EXCEPT !.calls[l.call].timer = Some(ScanTimeoutMs)]
    ELSE IF response.type = "scan"
    THEN LET b1 == removeListener(clearTimeout(b, l.call), l)
         IN  IF response.success /\ response.data # None
             THEN Resolve(b1, l.call, RecognitionResult(Get(response.data)))
             ELSE Reject(b1, l.call, OrElse(response.error, "Scan failed"))
    ELSE b

(* handler in scan() *)
scanHandler(b, l, response) ==
    IF response.type = "pick"
    THEN IF ~response.success
         THEN Reject(removeListener(clearTimeout(b, l.call), l), l.call,
                     OrElse(response.error, "Window selection cancelled"))
         ELSE b
    ELSE IF response.type = "scan"
    THEN LET b1 == removeListener(clearTimeout(b, l.call), l)
         IN  IF response.success /\ response.data # None
             THEN Resolve(b1, l.call, RecognitionResult(Get(response.data)))
             ELSE Reject(b1, l.call, OrElse(response.error, "Scan failed"))
    ELSE b

(* emit('response', response): every listener registered when the emit     *)
(* starts is called, in registration order.                                *)
RECURSIVE emitTo(_, _, _)
emitTo(b, ls, response) ==
    IF ls = <<>> THEN b
    ELSE LET l == Head(ls)
             b1 == IF l.kind = "onReady" THEN onReady(b, l, response)
                   ELSE IF l.kind = "pick" THEN pickHandler(b, l, response)
                   ELSE scanHandler(b, l, response)
         IN  emitTo(b1, Tail(ls), response)

emit(b, members) ==
    IF CLIResponse(members) = None THEN b
    ELSE emitTo(b, b.listeners, Get(CLIResponse(members)))

(* The emits of one processBuffer run, in line order. *)
RECURSIVE emitAll(_, _)
emitAll(b, responses) ==
    IF responses = <<>> THEN b
    ELSE emitAll(emit(b, Head(responses)), Tail(responses))

(* The coordinator after the listeners or a timer have run. *)
Becomes(b) ==
    /\ ready' = b.ready
    /\ started' = b.started
    /\ listeners' = b.listeners
    /\ calls' = b.calls
    /\ coord' = b.coord
    /\ shown' = b.shown

----------------------------------------------------------------------------
(* init() reaches ocrBridge.start(): the worker is spawned (the spawn may  *)
(* fail), the handlers are attached, onReady is registered and the 5       *)
(* second timer is armed.                                                  *)
Start ==
    /\ coord = "init"
    /\ coord' = "starting"
    /\ process' = "child"
    /\ child' \in {"running", "failed"}
    /\ listeners' = Append(listeners, Listener("onReady", 0))
    /\ started' = [state |-> "pending", error |-> None, timer |-> Some(StartupTimeoutMs)]
    /\ bevent' = BridgeEvent("start", 0, None, <<>>)
    /\ UNCHANGED <<stream, delivered, emitted, buffer, ready, calls, shown, crashes,
                   uncaught, sent, unanswered, dataEvents, workerVars,
                   rendererVars, codecVars>>

(* The process 'error' handler of start(), for a spawn that failed:        *)
(* this.emit('error', err) throws when the bridge has no 'error' listener, *)
(* which init() registers only after start() has resolved; with a listener *)
(* the error is shown and reject(err) runs.                                *)
ProcessError ==
    /\ child = "failed"
    /\ child' = "errored"
    /\ IF coord \in {"ready", "quit"}
       THEN /\ Becomes(RejectStart(showError(Coordinator, "OCR engine error: spawn failed"),
                                   "spawn failed"))
            /\ UNCHANGED uncaught
       ELSE /\ uncaught' = TRUE
            /\ UNCHANGED <<ready, started, listeners, calls, coord, shown>>
    /\ bevent' = BridgeEvent("error", 0, None, <<>>)
    /\ UNCHANGED <<stream, delivered, emitted, buffer, process, crashes, sent,
                   unanswered, dataEvents, workerVars,
                   rendererVars, codecVars>>

(* The 5 second timer of start() fires. *)
StartTimeout ==
    /\ started.timer = Some(0)
    /\ LET b == [Coordinator EXCEPT !.started.timer = None]
       IN  Becomes(IF ~ready
                   THEN RejectStart(b, "CLI did not become ready in time")
                   ELSE b)
    /\ bevent' = BridgeEvent("startTimeout", 0, None, <<>>)
    /\ UNCHANGED <<stream, delivered, emitted, buffer, process, crashes, uncaught,
                   child, sent, unanswered, dataEvents, workerVars,
                   rendererVars, codecVars>>

(* sendCommand: throws without a process, else writes the command. *)
sendCommand(command) ==
    IF process = "null" THEN None ELSE Some(Append(sent, command))

(* pick() or scan() called by its hotkey handler: the timer is armed       *)
(* and the handler registered, then the command is sent; when sendCommand  *)
(* throws, the promise is rejected with what it threw.                     *)
Call(kind, timeout, command) ==
    /\ Len(calls) < MaxCalls
    /\ LET c == Len(calls) + 1
           b == [Coordinator EXCEPT
                    !.calls = Append(@, NewCall(kind, timeout)),
                    !.listeners = Append(@, Listener(kind, c))]
       IN  IF sendCommand(command) = None
           THEN /\ Becomes(Reject(b, c, "CLI not started"))
                /\ UNCHANGED <<sent, unanswered>>
           ELSE /\ Becomes(b)
                /\ sent' = Get(sendCommand(command))
                /\ unanswered' = IF child = "running" THEN unanswered \cup {c}
                                 ELSE unanswered
    /\ bevent' = BridgeEvent(kind, Len(calls) + 1, None, <<>>)
    /\ UNCHANGED <<stream, delivered, emitted, buffer, process, crashes, uncaught,
                   child, dataEvents, workerVars,
                   rendererVars, codecVars>>

(* Mutant of pick(): its timer is armed with the timeout of scan(). *)
PickHotkeyWithScanTimeout ==
    /\ coord = "ready"
    /\ Call("pick", ScanTimeoutMs, [action |-> "pick"])

(* CommandOrControl+Shift+P, registered by init(): ocrBridge.pick() *)
PickHotkey ==
    /\ coord = "ready"
    /\ Call("pick", PickTimeoutMs, [action |-> "pick"])

(* Option+A, registered by init(): ocrBridge.scan() *)
ScanHotkey ==
    /\ coord = "ready"
    /\ Call("scan", ScanTimeoutMs, [action |-> "scan"])

(* The timer of call c fires: the handler is removed and the promise       *)
(* rejected.                                                               *)
TimeoutMessage(kind) ==
    IF kind = "pick" THEN "Window selection timed out" ELSE "OCR scan timed out"

CallTimeout(c) ==
    /\ c \in DOMAIN calls
    /\ calls[c].timer = Some(0)
    /\ Becomes(Reject(removeListener(clearTimeout(Coordinator, c),
                                     Listener(calls[c].kind, c)),
                      c, TimeoutMessage(calls[c].kind)))
    /\ bevent' = BridgeEvent("timeout", c, None, <<>>)
    /\ UNCHANGED <<stream, delivered, emitted, buffer, process, crashes, uncaught,
                   child, sent, unanswered, dataEvents, workerVars,
                   rendererVars, codecVars>>

(* Time passes: no armed timer is due, and every armed timer comes         *)
(* StartupTimeoutMs closer.                                                *)
Later(timer) == IF timer = None THEN None ELSE Some(Get(timer) - StartupTimeoutMs)

Tick ==
    /\ started.timer # None \/ \E c \in DOMAIN calls : calls[c].timer # None
    /\ started.timer # Some(0)
    /\ \A c \in DOMAIN calls : calls[c].timer # Some(0)
    /\ started' = [started EXCEPT !.timer = Later(@)]
    /\ calls' = [c \in DOMAIN calls |->
                   [calls[c] EXCEPT
                      !.timer = Later(@),
                      !.age = IF calls[c].state = "pending"
                              THEN @ + StartupTimeoutMs ELSE @]]
    /\ bevent' = BridgeEvent("tick", 0, None, <<>>)
    /\ UNCHANGED <<stream, delivered, emitted, buffer, process, ready, listeners,
                   coord, shown, crashes, uncaught, child, sent, unanswered,
                   dataEvents, workerVars,
                   rendererVars, codecVars>>

----------------------------------------------------------------------------
(* What the worker writes, seen from the coordinator: the line of a        *)
(* Response built by sendSuccess or sendError, and a line that is no JSON. *)
WorkerLine(r) == <<LBrace, Members(r), RBrace, NL>>
BadLine == <<RBrace, NL>>

ReadyResponse == sendSuccess("ready", ReadyData)
PickResponses ==
    { sendSuccess("pick", WindowSelectedData(Some(41), "filterA")),
      sendSuccess("pick", WindowSelectedData(None, "filterA")),
      sendError("pick", "User cancelled window selection"),
      sendError("pick", "Picker failed to start: no display") }
ScanResponses ==
    { sendSuccess("scan", OCRData("filterA", <<"line of text">>, ContentRect("filterA"))),
      sendError("scan", "Failed: capture error") }
ErrorResponses == { sendError("error", "Invalid JSON command") }

(* The responses the worker may write for call c; c = 0 is for none: the   *)
(* ready message and the error-typed answer to a line it could not read.   *)
ResponsesFor(c) ==
    IF c = 0 THEN {ReadyResponse} \cup ErrorResponses
    ELSE IF calls[c].kind = "pick" THEN PickResponses
    ELSE PickResponses \cup ScanResponses

(* The worker is done with call c once it wrote r: a scan answers with a   *)
(* pick success first when it had to open the picker.                      *)
Answers(c, r) ==
    /\ c # 0
    /\ ~(calls[c].kind = "scan" /\ r.type = "pick" /\ r.success)

(* The chunk of one 'data' event: the line of r, alone or with a bad line  *)
(* before or after it; r = None is a bad line alone.                       *)
Chunk(r, noise) ==
    IF r = None THEN BadLine
    ELSE IF noise = "before" THEN BadLine \o WorkerLine(Get(r))
    ELSE IF noise = "after" THEN WorkerLine(Get(r)) \o BadLine
    ELSE WorkerLine(Get(r))

(* The stdout 'data' handler of start() with the listeners registered:     *)
(* the chunk is decoded and buffered, processBuffer emits the response of  *)
(* every complete line that parses.                                        *)
StdoutData(c, r, noise) ==
    /\ child \in {"running", "terminating"}
    /\ dataEvents < MaxData
    /\ c \in unanswered \cup {0}
    /\ r \in {None} \cup {Some(x) : x \in ResponsesFor(c)}
    /\ (r = None) => (c = 0 /\ noise = "none")
    /\ LET res == OnStdoutData(Chunk(r, noise))
       IN  /\ buffer' = res.buffer
           /\ Becomes(emitAll(Coordinator, res.responses))
           /\ bevent' = BridgeEvent("data", c, Some([r |-> r, noise |-> noise]),
                                    res.responses)
    /\ unanswered' = IF r # None /\ Answers(c, Get(r)) THEN unanswered \ {c}
                     ELSE unanswered
    /\ dataEvents' = dataEvents + 1
    /\ UNCHANGED <<stream, delivered, emitted, process, crashes, uncaught, child,
                   sent, workerVars,
                   rendererVars, codecVars>>

(* How the worker process can end: exit code 0 after a quit command, a     *)
(* non-zero code or a fatal signal at any time, the signal of kill() after *)
(* stop().  A process ended by a signal has no exit code.                  *)
Exits ==
    { [code |-> Value(0), signal |-> None],
      [code |-> Value(1), signal |-> None],
      [code |-> Null, signal |-> Some("SIGSEGV")],
      [code |-> Null, signal |-> Some("SIGTERM")] }

(* The process 'close' handler of start(), and the close listener init()   *)
(* registers after start() resolved: a code other than 0 is a crash.       *)
ProcessClose(exit) ==
    /\ child \in {"running", "terminating"}
    /\ exit.code = Value(0) => \E i \in DOMAIN sent : sent[i].action = "quit"
    /\ exit.signal = Some("SIGTERM") => child = "terminating"
    /\ child' = "exited"
    /\ unanswered' = {}
    /\ LET b == [Coordinator EXCEPT !.ready = FALSE]
       IN  IF coord \in {"ready", "quit"} /\ exit.code # Value(0)
           THEN /\ crashes' = crashes \cup {exit.code}
                /\ Becomes(showError(b, "OCR engine crashed. Restart the app."))
           ELSE /\ Becomes(b)
                /\ UNCHANGED crashes
    /\ bevent' = BridgeEvent("close", 0, Some(exit), <<>>)
    /\ UNCHANGED <<stream, delivered, emitted, buffer, process, uncaught, sent,
                   dataEvents, workerVars,
                   rendererVars, codecVars>>

(* app 'will-quit', after the user quits or init() called app.quit(): the  *)
(* shortcuts are unregistered, ocrBridge.stop() writes quit, kills the     *)
(* process and forgets it, and the overlay is destroyed.                   *)
WillQuit ==
    /\ coord \in {"ready", "failed"}
    /\ coord' = IF coord = "ready" THEN "quit" ELSE "aborted"
    /\ IF process = "child"
       THEN /\ sent' = Get(sendCommand([action |-> "quit"]))
            /\ child' = IF child = "running" THEN "terminating" ELSE child
            /\ process' = "null"
       ELSE UNCHANGED <<sent, child, process>>
    /\ bevent' = BridgeEvent("willQuit", 0, None, <<>>)
    /\ UNCHANGED <<stream, delivered, emitted, buffer, ready, listeners, started,
                   calls, shown, crashes, uncaught, unanswered, dataEvents,
                   workerVars, rendererVars, codecVars>>

BridgeNext ==
    \/ Start
    \/ ProcessError
    \/ StartTimeout
    \/ PickHotkey
    \/ ScanHotkey
    \/ \E c \in 1..MaxCalls : CallTimeout(c)
    \/ Tick
    \/ \E c \in 0..MaxCalls, noise \in {"none", "before", "after"} :
          \E r \in {None} \cup {Some(x) : x \in {ReadyResponse} \cup ErrorResponses
                                               \cup PickResponses \cup ScanResponses} :
             StdoutData(c, r, noise)
    \/ \E exit \in Exits : ProcessClose(exit)
    \/ WillQuit

BridgeSpec == Init /\ [][BridgeNext]_vars

(* Time passes and a timer that is due fires. *)
TimerStep ==
    \/ StartTimeout
    \/ \E c \in 1..MaxCalls : CallTimeout(c)

FairBridgeSpec ==
    /\ Init
    /\ [][BridgeNext]_vars
    /\ WF_vars(Tick)
    /\ WF_vars(TimerStep)

----------------------------------------------------------------------------
(* OCRBridge is an exported class: pick() and scan() called by a client on *)
(* a bridge that has no process, before start() or after stop().           *)
PickWithoutProcess ==
    /\ process = "null"
    /\ Call("pick", PickTimeoutMs, [action |-> "pick"])

ScanWithoutProcess ==
    /\ process = "null"
    /\ Call("scan", ScanTimeoutMs, [action |-> "scan"])

(* The worker's lines arrive one per 'data' event here. *)
ClientNext ==
    \/ Start
    \/ ProcessError
    \/ StartTimeout
    \/ PickHotkey
    \/ ScanHotkey
    \/ PickWithoutProcess
    \/ ScanWithoutProcess
    \/ \E c \in 1..MaxCalls : CallTimeout(c)
    \/ Tick
    \/ \E c \in 0..MaxCalls :
          \E r \in {Some(x) : x \in {ReadyResponse} \cup ErrorResponses
                                      \cup PickResponses \cup ScanResponses} :
             StdoutData(c, r, "none")
    \/ \E exit \in Exits : ProcessClose(exit)
    \/ WillQuit

ClientSpec == Init /\ [][ClientNext]_vars

----------------------------------------------------------------------------
(* The overlay renderer (overlay.ts).  Numbers are fixed-point: normalized *)
(* coordinates in thousandths of the unit square, pixel lengths in         *)
(* thousandths of a pixel, angles in thousandths of a degree, so that the  *)
(* products and comparisons of renderOCRResults are exact.                 *)
Scale == 1000
Px(n) == n * Scale
Degrees(n) == n * Scale
Abs(n) == IF n < 0 THEN -n ELSE n

(* Bound: the observations of one recognition result. *)
MaxObservations == 2

(* A TextObservation: its text, its normalized bounding box of width w and *)
(* height h, and its two top corners, topRight being topLeft moved by      *)
(* (dx, dy).                                                               *)
TextObservation(text, w, h, dx, dy) ==
    [text        |-> text,
     boundingBox |-> [x |-> 100, y |-> 200, width |-> w, height |-> h],
     topLeft     |-> [x |-> 300, y |-> 500],
     topRight    |-> [x |-> 300 + dx, y |-> 500 + dy]]

TextObservations ==
    { TextObservation("level", 50, 80, 200, 0),
      TextObservation("narrow", 49, 80, 200, 1),
      TextObservation("low", 100, 79, 200, -2),
      TextObservation("tilted", 100, 200, 200, 2),
      TextObservation("flipped", 100, 200, -200, 0) }

RECURSIVE SeqsUpTo(_, _)
SeqsUpTo(S, n) ==
    IF n = 0 THEN {<<>>}
    ELSE SeqsUpTo(S, n - 1) \cup
         {Append(s, x) : s \in {t \in SeqsUpTo(S, n - 1) : Len(t) = n - 1}, x \in S}

(* The OCRData the main process sends to the overlay. *)
OCRResults == {[observations |-> o] : o \in SeqsUpTo(TextObservations, MaxObservations)}

(* The sizes the host window system gives the container. *)
Surfaces ==
    { [width |-> 0, height |-> 0],
      [width |-> 200, height |-> 100],
      [width |-> 400, height |-> 200] }

(* span.scrollWidth as measured at the maximal font size. *)
MeasuredWidths == {Px(5), Px(60), Px(4000)}

(* 180 / Math.PI, in thousandths of a degree per radian. *)
DegreesPerRadian == 57296

(* Math.atan2(y, x) * (180 / Math.PI) for the vectors of the model: along  *)
(* an axis, or within 1/100 of the x axis, where the arc tangent of a      *)
(* ratio is the ratio itself to 4 parts in 100000.                         *)
atan2Degrees(y, x) ==
    IF y = 0 THEN (IF x >= 0 THEN 0 ELSE Degrees(180))
    ELSE IF x = 0 THEN (IF y > 0 THEN Degrees(90) ELSE -Degrees(90))
    ELSE LET small == (Abs(y) * DegreesPerRadian) \div Abs(x)
             angle == IF x > 0 THEN small ELSE Degrees(180) - small
         IN  IF y > 0 THEN angle ELSE -angle

(* calculateRotation *)
calculateRotation(obs) ==
    LET dx == obs.topRight.x - obs.topLeft.x
        dy == obs.topRight.y - obs.topLeft.y
    IN  atan2Degrees(-dy, dx)

MIN_FONT_SIZE == Px(8)

(* Mutant of fitTextToWidth: the scaled size is used without the floor. *)
fitTextToWidthWithoutFloor(span, targetWidth, maxFontSize, measuredWidth) ==
    IF measuredWidth <= targetWidth
    THEN [span EXCEPT !.fontSize = Some(maxFontSize)]
    ELSE [span EXCEPT !.fontSize = Some((maxFontSize * targetWidth) \div measuredWidth)]

(* fitTextToWidth: measuredWidth is span.scrollWidth at maxFontSize. *)
fitTextToWidth(span, targetWidth, maxFontSize, measuredWidth) ==
    IF measuredWidth <= targetWidth
    THEN [span EXCEPT !.fontSize = Some(maxFontSize)]
    ELSE LET scaledSize == (maxFontSize * targetWidth) \div measuredWidth
             finalSize == IF scaledSize > MIN_FONT_SIZE THEN scaledSize
                          ELSE MIN_FONT_SIZE
         IN  [span EXCEPT !.fontSize = Some(finalSize)]

(* Mutant of the noise test: a box is skipped only when it is both too     *)
(* narrow and too low.                                                     *)
isNoiseWhenBothSmall(baseWidth, baseHeight) ==
    baseWidth < Px(10) /\ baseHeight < Px(8)

(* Skip very small boxes that are likely noise. *)
isNoise(baseWidth, baseHeight) ==
    baseWidth < Px(10) \/ baseHeight < Px(8)

(* Mutant of the tilt test: every angle other than 0 is applied. *)
isTiltedAtAll(rotation) == rotation # 0

(* Apply rotation if text is tilted. *)
isTilted(rotation) == Abs(rotation) > Degrees(1) \div 2

(* The span of observation k of the data, before its text is fitted.  obs  *)
(* is the number of the observation (history).                             *)
Span(observation, k, overlayWidth, overlayHeight) ==
    LET box == observation.boundingBox
        baseX == box.x * overlayWidth
        baseY == (Scale - box.y - box.height) * overlayHeight
        baseWidth == box.width * overlayWidth
        baseHeight == box.height * overlayHeight
        rotation == calculateRotation(observation)
    IN  [text      |-> observation.text,
         left      |-> baseX - Px(1),
         top       |-> baseY - Px(1),
         width     |-> baseWidth + Px(2),
         height    |-> baseHeight + Px(2),
         transform |-> IF isTilted(rotation) THEN Some(rotation) ELSE None,
         fontSize  |-> None,
         obs       |-> k]

(* Mutant of clearOverlay: the children are left in place. *)
keepOverlay(children) == children

(* clearOverlay *)
clearOverlay(children) == <<>>

(* The loop of renderOCRResults from observation k on. *)
RECURSIVE appendSpans(_, _, _, _, _)
appendSpans(children, data, size, measured, k) ==
    IF k > Len(data.observations) THEN children
    ELSE LET observation == data.observations[k]
             baseWidth == observation.boundingBox.width * size.width
             baseHeight == observation.boundingBox.height * size.height
             span == Span(observation, k, size.width, size.height)
         IN  IF isNoise(baseWidth, baseHeight)
             THEN appendSpans(children, data, size, measured, k + 1)
             ELSE appendSpans(
                      Append(children,
                             fitTextToWidth(span, span.width, span.height, measured[k])),
                      data, size, measured, k + 1)

(* renderOCRResults on a container with the given children and size;       *)
(* measured[k] is the width the span of observation k is measured with.    *)
renderOCRResults(children, data, size, measured) ==
    appendSpans(clearOverlay(children), data, size, measured, 1)

(* The host window system lays the container out at another size. *)
Resize(size) ==
    /\ size # surface
    /\ surface' = size
    /\ UNCHANGED <<container, rendered, workerVars, bridgeVars, codecVars>>

(* The onOCRResults listener: the data is rendered.  History: the data and *)
(* size rendered, how many children the container held before, and whether *)
(* the render before this one was of the same data at the same size.       *)
OnOCRResults(data, measured) ==
    /\ container' = renderOCRResults(container, data, surface, measured)
    /\ rendered' = Some([data     |-> data,
                         surface  |-> surface,
                         replaced |-> Len(container),
                         again    |-> /\ rendered # None
                                      /\ Get(rendered).data = data
                                      /\ Get(rendered).surface = surface])
    /\ UNCHANGED <<surface, workerVars, bridgeVars, codecVars>>

OverlayNext ==
    \/ \E size \in Surfaces : Resize(size)
    \/ \E data \in OCRResults, measured \in [1..MaxObservations -> MeasuredWidths] :
          OnOCRResults(data, measured)

OverlaySpec == Init /\ [][OverlayNext]_vars

----------------------------------------------------------------------------
(* The command codec: JSON.stringify in sendCommand (ocr-bridge.ts) and    *)
(* readLine with JSONDecoder in readStdin (main.swift).  A string is a     *)
(* sequence of characters: a run of ordinary characters as one Word, the   *)
(* quote, the backslash and the newline.                                   *)
Quote == [byte |-> "\""]
Backslash == [byte |-> "\\"]
Punct(c) == [byte |-> c]
Word(w) == [byte |-> "word", of |-> w]

(* Bound: the language tags of one command. *)
MaxLanguages == 2

(* The strings and the Commands of the model. *)
LanguageTags == {<<Word("ja")>>, <<Word("en")>>}
Paths ==
    { <<>>,
      <<Word("/tmp/a.png")>>,
      <<Word("a"), Quote, Word("b")>>,
      <<Word("a"), NL, Word("b")>>,
      <<Word("a"), Backslash, Word("n")>>,
      <<Backslash, Quote, RBrace, Punct(",")>> }

Commands ==
    [action    : {<<Word("pick")>>, <<Word("scan")>>, <<Word("quit")>>},
     languages : {None} \cup {Some(l) : l \in SeqsUpTo(LanguageTags, MaxLanguages)},
     saveTo    : {None} \cup {Some(p) : p \in Paths}]

RECURSIVE Concat(_)
Concat(parts) == IF parts = <<>> THEN <<>> ELSE Head(parts) \o Concat(Tail(parts))

(* Mutant of the string escaping of JSON.stringify: a newline is written   *)
(* as it is.                                                               *)
escapeLeavingNewlines(ch) ==
    IF ch = Quote THEN <<Backslash, Quote>>
    ELSE IF ch = Backslash THEN <<Backslash, Backslash>>
    ELSE <<ch>>

(* JSON.stringify of one character of a string. *)
escape(ch) ==
    IF ch = Quote THEN <<Backslash, Quote>>
    ELSE IF ch = Backslash THEN <<Backslash, Backslash>>
    ELSE IF ch = NL THEN <<Backslash, Word("n")>>
    ELSE <<ch>>

(* JSON.stringify of a string. *)
stringifyString(str) ==
    <<Quote>> \o Concat([i \in DOMAIN str |-> escape(str[i])]) \o <<Quote>>

(* JSON.stringify(command): a member whose value is undefined is left out, *)
(* an array of strings is written with its elements in order.              *)
JSONStringify(c) ==
    LET stringifyArray(a) ==
            <<Punct("[")>>
              \o Concat([i \in DOMAIN a |->
                            IF i = 1 THEN stringifyString(a[i])
                            ELSE <<Punct(",")>> \o stringifyString(a[i])])
              \o <<Punct("]")>>
    IN
    <<LBrace>>
      \o stringifyString(<<Word("action")>>) \o <<Punct(":")>> \o stringifyString(c.action)
      \o (IF c.languages = None THEN <<>>
          ELSE <<Punct(",")>> \o stringifyString(<<Word("languages")>>) \o <<Punct(":")>>
                 \o stringifyArray(Get(c.languages)))
      \o (IF c.saveTo = None THEN <<>>
          ELSE <<Punct(",")>> \o stringifyString(<<Word("saveTo")>>) \o <<Punct(":")>>
                 \o stringifyString(Get(c.saveTo)))
      \o <<RBrace>>

(* The JSON parser of JSONDecoder, for objects of strings and arrays of    *)
(* strings.  A parse gives the value and the position after it, or fails.  *)
Failed == [ok |-> FALSE]
Parsed(kind, value, next) == [ok |-> TRUE, kind |-> kind, value |-> value, next |-> next]
At(s, i) == IF i \in DOMAIN s THEN s[i] ELSE [byte |-> "end"]

RECURSIVE stringBody(_, _, _)
stringBody(s, i, acc) ==
    IF At(s, i) = Quote THEN Parsed("string", acc, i + 1)
    ELSE IF At(s, i) = Backslash
    THEN IF At(s, i + 1) \in {Quote, Backslash}
         THEN stringBody(s, i + 2, Append(acc, s[i + 1]))
         ELSE IF At(s, i + 1) = Word("n")
         THEN stringBody(s, i + 2, Append(acc, NL))
         ELSE Failed
    ELSE IF At(s, i) \in {[byte |-> "end"], NL} THEN Failed
    ELSE stringBody(s, i + 1, Append(acc, s[i]))

parseString(s, i) ==
    IF At(s, i) = Quote THEN stringBody(s, i + 1, <<>>) ELSE Failed

RECURSIVE arrayItems(_, _, _)
arrayItems(s, i, acc) ==
    LET item == parseString(s, i)
    IN  IF ~item.ok THEN Failed
        ELSE IF At(s, item.next) = Punct(",")
        THEN arrayItems(s, item.next + 1, Append(acc, item.value))
        ELSE IF At(s, item.next) = Punct("]")
        THEN Parsed("array", Append(acc, item.value), item.next + 1)
        ELSE Failed

parseValue(s, i) ==
    IF At(s, i) = Quote THEN parseString(s, i)
    ELSE IF At(s, i) = Punct("[")
    THEN IF At(s, i + 1) = Punct("]") THEN Parsed("array", <<>>, i + 2)
         ELSE arrayItems(s, i + 1, <<>>)
    ELSE Failed

RECURSIVE parseMembers(_, _, _)
parseMembers(s, i, acc) ==
    LET key == parseString(s, i)
        value == parseValue(s, key.next + 1)
        member == [key |-> key.value, kind |-> value.kind, value |-> value.value]
    IN  IF ~key.ok \/ At(s, key.next) # Punct(":") THEN Failed
        ELSE IF ~value.ok THEN Failed
        ELSE IF At(s, value.next) = Punct(",")
        THEN parseMembers(s, value.next + 1, Append(acc, member))
        ELSE IF At(s, value.next) = RBrace /\ value.next = Len(s)
        THEN Parsed("object", Append(acc, member), value.next + 1)
        ELSE Failed

parseObject(s) ==
    IF At(s, 1) # LBrace THEN Failed
    ELSE IF At(s, 2) = RBrace /\ Len(s) = 2 THEN Parsed("object", <<>>, 3)
    ELSE parseMembers(s, 2, <<>>)

(* The values of the members named key, and whether they all are of kind. *)
ValuesOf(members, key) ==
    {members[i].value : i \in {j \in DOMAIN members : members[j].key = <<Word(key)>>}}
KindIs(members, key, kind) ==
    \A i \in DOMAIN members : members[i].key = <<Word(key)>> => members[i].kind = kind

(* The line as JSONDecoder sees it for struct Command: no object when the  *)
(* text does not parse or a member of Command has a value of another type. *)
JSONObject(line) ==
    IF line = <<>> THEN EmptyLine
    ELSE LET o == parseObject(line)
         IN  IF ~o.ok THEN NotJSON
             ELSE IF \/ ~KindIs(o.value, "action", "string")
                     \/ ~KindIs(o.value, "languages", "array")
                     \/ ~KindIs(o.value, "saveTo", "string")
                     \/ \E key \in {"action", "languages", "saveTo"} :
                           Cardinality(ValuesOf(o.value, key)) > 1
             THEN NotJSON
             ELSE Object(ValuesOf(o.value, "action"), ValuesOf(o.value, "languages"),
                         ValuesOf(o.value, "saveTo"))

(* readLine(): the characters up to the first newline, and what follows it. *)
readLine(s) ==
    LET newline == CHOOSE i \in DOMAIN s :
                       s[i] = NL /\ \A j \in 1..(i - 1) : s[j] # NL
    IN  [line |-> SubSeq(s, 1, newline - 1),
         rest |-> SubSeq(s, newline + 1, Len(s))]

(* sendCommand with a process: the line of the command is written. *)
WriteCommand(c) ==
    /\ wire = <<>>
    /\ wire' = JSONStringify(c) \o <<NL>>
    /\ written' = Some(c)
    /\ decoded' = None
    /\ UNCHANGED <<workerVars, bridgeVars, rendererVars>>

(* readStdin, one turn of its loop on the wire: the line is read and, when *)
(* not empty, decoded as a Command.                                        *)
ReadCommand ==
    /\ \E i \in DOMAIN wire : wire[i] = NL
    /\ wire' = readLine(wire).rest
    /\ decoded' = IF readLine(wire).line = <<>> THEN decoded
                  ELSE Some([command |-> DecodeCommand(JSONObject(readLine(wire).line), 1)])
    /\ UNCHANGED <<written, workerVars, bridgeVars, rendererVars>>

CodecNext ==
    \/ \E c \in Commands : WriteCommand(c)
    \/ ReadCommand

CodecSpec == Init /\ [][CodecNext]_vars

----------------------------------------------------------------------------
(* Helpers of the properties. *)
ResponsesOfTask(i) == {k \in DOMAIN stdout : origin[k].task = i}
ResponsesOfLine(n) == {k \in DOMAIN stdout : origin[k].line = n}
Last(seq) == seq[Len(seq)]
IsPickFailure(r) ==
    r.type = "pick" /\ ~r.success /\ r.data = None /\ r.error # None
IsPickSuccess(r) ==
    r.type = "pick" /\ r.success /\ r.data # None /\ r.error = None

----------------------------------------------------------------------------
C2_PlainPickStartsNoCapture ==
    [][(event'.kind = "didUpdate" /\ waiting = {}) =>
         /\ currentFilter' # None
         /\ tasks' = tasks
         /\ Len(stdout') = Len(stdout) + 1
         /\ IsPickSuccess(Last(stdout'))]_vars

(* C3: a picker cancellation or start failure emits exactly one pick       *)
(* failure response and leaves the filter and the window number as they    *)
(* were.                                                                   *)
C3_PickerFailureKeepsTarget ==
    [][event'.kind \in {"didCancel", "startDidFail"} =>
         /\ currentFilter' = currentFilter
         /\ currentWindowID' = currentWindowID
         /\ Len(stdout') = Len(stdout) + 1
         /\ SubSeq(stdout', 1, Len(stdout)) = stdout
         /\ IsPickFailure(Last(stdout'))]_vars

(* C3 witness: a cancellation with a target acquired before it. *)
C3_Witness ==
    /\ event.kind \in {"didCancel", "startDidFail"}
    /\ currentFilter # None
    /\ currentWindowID # None
    /\ IsPickFailure(Last(stdout))

(* C4: a picker failure with a scan waiting clears the pending record and  *)
(* emits the pick failure only; no capture is ever started and no response *)
(* ever emitted for a scan dropped this way.                               *)
C4_DroppedScanNeverRuns ==
    /\ [][(event'.kind \in {"didCancel", "startDidFail"} /\ waiting # {}) =>
            /\ pendingCommand' = None
            /\ tasks' = tasks
            /\ stdout' = Append(stdout, Last(stdout'))
            /\ IsPickFailure(Last(stdout'))]_vars
    /\ [](/\ \A i \in DOMAIN tasks : tasks[i].command.line \notin dropped
          /\ \A n \in dropped : ResponsesOfLine(n) = {})

(* C4 witness: after a scan was dropped, a plain pick has succeeded. *)
C4_Witness ==
    /\ dropped # {}
    /\ event.kind = "didUpdate"
    /\ currentFilter # None

C6_UnknownActionRejected ==
    [][(event'.kind = "handleCommand" /\ event'.action \notin KnownActions) =>
         /\ stdout' = Append(stdout, [type |-> "error", success |-> FALSE, data |-> None,
                                      error |-> Some("Unknown action: " \o event'.action)])
         /\ currentFilter' = currentFilter
         /\ currentWindowID' = currentWindowID
         /\ pendingCommand' = pendingCommand
         /\ pickerOpen' = pickerOpen
         /\ tasks' = tasks]_vars

(* C6 witness: "foo" was rejected while a scan was pending. *)
C6_Witness ==
    /\ event.kind = "handleCommand"
    /\ event.action = "foo"
    /\ pendingCommand # None
    /\ Last(stdout).error = Some("Unknown action: foo")

(* Line n was answered, or will be by a queued block, with one error response. *)
ErrorBlocksOfLine(n) ==
    {k \in DOMAIN mainq : mainq[k].kind = "sendError" /\ mainq[k].line = n}
AnsweredWithOneError(n) ==
    /\ Cardinality(ResponsesOfLine(n)) + Cardinality(ErrorBlocksOfLine(n)) = 1
    /\ \A k \in ResponsesOfLine(n) :
          stdout[k].type = "error" /\ ~stdout[k].success /\ stdout[k].error # None

(* C7 as stated: every line read that does not decode to a Command, the    *)
(* empty line included, is answered with exactly one error response.       *)
C7_EveryBadLineAnswered ==
    \A n \in DOMAIN lines :
       DecodeCommand(lines[n], n) = None => AnsweredWithOneError(n)

(* C7 amended: every non-empty line that does not decode to a Command is   *)
(* answered with exactly one error response, emitted with the worker state *)
(* unchanged; an empty line is skipped without any response; the reader    *)
(* goes on reading after either.                                           *)
C7_NonEmptyBadLineAnswered ==
    /\ [](\A n \in DOMAIN lines :
            /\ (~lines[n].empty /\ DecodeCommand(lines[n], n) = None) => AnsweredWithOneError(n)
            /\ lines[n].empty => (ResponsesOfLine(n) = {} /\ ErrorBlocksOfLine(n) = {}))
    /\ [][event'.kind = "invalidLine" =>
            /\ stdout' = Append(stdout, [type |-> "error", success |-> FALSE, data |-> None,
                                         error |-> Some("Invalid JSON command")])
            /\ currentFilter' = currentFilter
            /\ currentWindowID' = currentWindowID
            /\ pendingCommand' = pendingCommand
            /\ pickerOpen' = pickerOpen
            /\ tasks' = tasks]_vars
    /\ [][event'.kind = "readLine" => reader' = "reading"]_vars

(* C7 witness: a line that is no JSON and, read after it, a JSON object    *)
(* without action have both been answered.                                 *)
C7_Witness ==
    /\ Len(lines) = 2
    /\ lines[1] = NotJSON
    /\ lines[2] = Object(None, None, None)
    /\ ResponsesOfLine(1) # {}
    /\ ResponsesOfLine(2) # {}

(* C8: nothing is emitted, read or queued before launch; from launch on    *)
(* the first response is the ready response and it is the only one of      *)
(* type ready.                                                             *)
C8_ReadyOnceAndFirst ==
    /\ pc = "launching" => (stdout = <<>> /\ lines = <<>> /\ mainq = <<>> /\ reader = "idle")
    /\ pc # "launching" =>
          /\ Len(stdout) >= 1
          /\ stdout[1] = [type |-> "ready", success |-> TRUE,
                          data |-> Some([version |-> "1.0.0"]), error |-> None]
          /\ {k \in DOMAIN stdout : stdout[k].type = "ready"} = {1}

(* C8 witness: a command has been handled and answered after ready. *)
C8_Witness ==
    /\ event.kind = "handleCommand"
    /\ Len(stdout) >= 2
    /\ stdout[1].type = "ready"

(* A quit command, or the end of input, has reached the worker. *)
QuitReceived ==
    \/ reader = "eof"
    \/ \E k \in DOMAIN mainq :
          mainq[k].kind = "handleCommand" /\ mainq[k].command.action = "quit"

(* C9: once a quit command has been read or stdin has ended, the worker    *)
(* terminates, and a terminated worker emits nothing.                      *)
C9_QuitTerminates ==
    /\ QuitReceived ~> (pc = "terminated")
    /\ [][pc = "terminated" => (pc' = "terminated" /\ stdout' = stdout)]_vars

(* C9 witness: terminated with the picker open and a capture in flight. *)
C9_Witness ==
    /\ pc = "terminated"
    /\ pickerOpen
    /\ currentFilter # None
    /\ \E i \in DOMAIN tasks : tasks[i].stage # "done"

(* C10: a response has data and no error when success is true, and error   *)
(* and no data when success is false.                                      *)
C10_DataXorError ==
    \A k \in DOMAIN stdout :
       /\ stdout[k].success => (stdout[k].data # None /\ stdout[k].error = None)
       /\ ~stdout[k].success => (stdout[k].error # None /\ stdout[k].data = None)

(* C10 witness: responses of every type, successes and failures, are out. *)
C10_Witness ==
    /\ \E k \in DOMAIN stdout : stdout[k].type = "pick" /\ stdout[k].success
    /\ \E k \in DOMAIN stdout : stdout[k].type = "scan" /\ ~stdout[k].success
    /\ \E k \in DOMAIN stdout : stdout[k].type = "error"

----------------------------------------------------------------------------
(* The bounds a successful scan response carries. *)
BoundsOf(r) == Get(r.data).bounds
IsScanSuccess(r) == r.type = "scan" /\ r.success /\ r.data # None

----------------------------------------------------------------------------
(* C13 as stated: once the whole stream has been delivered, in whatever    *)
(* chunks, the responses emitted are those emitted when the stream is      *)
(* delivered in one piece.                                                 *)
C13_ChunkingIsInvisible ==
    delivered = Len(stream) =>
        emitted = processBuffer(toString(stream)).responses

----------------------------------------------------------------------------
(* The types of the responses a step of the coordinator emitted. *)
EmittedTypes(e) ==
    {Get(CLIResponse(e.responses[k])).type :
        k \in {j \in DOMAIN e.responses : CLIResponse(e.responses[j]) # None}}

(* C12: start() is resolved only by a 'data' event that emits a response   *)
(* of type ready; while start() is pending the bridge is not ready and the *)
(* 5 second timer is armed, and when that timer fires with start() still   *)
(* pending, start() is rejected with the startup timeout error.            *)
C12_StartSettledByReadyOrTimeout ==
    /\ [][(started'.state = "resolved" /\ started.state # "resolved") =>
             /\ started.state = "pending"
             /\ bevent'.kind = "data"
             /\ "ready" \in EmittedTypes(bevent')
             /\ ready']_vars
    /\ [][(bevent'.kind = "startTimeout" /\ started.state = "pending") =>
             /\ started.timer = Some(0)
             /\ started'.state = "rejected"
             /\ started'.error = Some("CLI did not become ready in time")]_vars
    /\ [](started.state = "pending" =>
             /\ ~ready
             /\ started.timer # None
             /\ Get(started.timer) \in 0..StartupTimeoutMs)

(* C12 witness: start() was rejected by its timer although a response of   *)
(* another type had arrived.                                               *)
C12_Witness ==
    /\ started.state = "rejected"
    /\ started.error = Some("CLI did not become ready in time")
    /\ dataEvents > 0
    /\ ~ready

----------------------------------------------------------------------------
(* What the chunk of the 'data' event e held. *)
ChunkOf(e) == Get(e.detail)
(* Call c has a listener that reacts to a response of this type. *)
Listens(c, type) ==
    /\ c \in DOMAIN calls
    /\ Listener(calls[c].kind, c) \in {listeners[k] : k \in DOMAIN listeners}
    /\ calls[c].state = "pending"
    /\ \/ type = calls[c].kind
       \/ calls[c].kind = "scan" /\ type = "pick"

(* C14: a 'data' event that holds only a line that does not parse emits no *)
(* response and leaves every call, listener and timer as it was; a valid   *)
(* line in the same chunk, before or after the bad line, is emitted as if  *)
(* it had come alone, and settles the pending call that waits for a final  *)
(* response of its type.                                                   *)
C14_BadLineDroppedAlone ==
    [][bevent'.kind = "data" =>
          LET chunk == ChunkOf(bevent')
          IN  /\ chunk.r = None =>
                    /\ bevent'.responses = <<>>
                    /\ UNCHANGED <<calls, listeners, started, ready, shown, buffer>>
              /\ chunk.r # None =>
                    /\ bevent'.responses = << <<Members(Get(chunk.r))>> >>
                    /\ buffer' = buffer
                    /\ \A c \in DOMAIN calls :
                          (/\ Listens(c, Get(chunk.r).type)
                           /\ ~(calls[c].kind = "scan" /\ Get(chunk.r).type = "pick"
                                  /\ Get(chunk.r).success))
                             => calls'[c].state # "pending"]_vars

(* C14 witness: the third 'data' event brought a chunk with a bad line     *)
(* before a valid pick response, and the response resolved a pick().       *)
C14_Witness ==
    /\ bevent.kind = "data"
    /\ ChunkOf(bevent).noise = "before"
    /\ ChunkOf(bevent).r # None
    /\ dataEvents = 3
    /\ \E c \in DOMAIN calls :
          /\ calls[c].kind = "pick"
          /\ calls[c].state = "resolved"
          /\ bevent.call = c

----------------------------------------------------------------------------
PendingPick(c) ==
    c \in DOMAIN calls /\ calls[c].kind = "pick" /\ calls[c].state = "pending"

(* C15: a pending pick() leaves the pending state only when its own timer  *)
(* fires or a 'data' event emits a response of type pick; a successful     *)
(* pick response resolves it with the window id, application name, window  *)
(* title and bounds of the response, null where the response has none, a   *)
(* failing one rejects it with the message of the response, and responses  *)
(* of type ready, scan and error leave the call as it was.                 *)
C15_PickSettledByPickResponse ==
    [][\A c \in DOMAIN calls : PendingPick(c) =>
          /\ calls'[c].state # "pending" =>
                \/ bevent'.kind = "timeout" /\ bevent'.call = c
                \/ bevent'.kind = "data" /\ "pick" \in EmittedTypes(bevent')
          /\ (bevent'.kind = "data" /\ ChunkOf(bevent').r # None) =>
                LET r == Get(ChunkOf(bevent').r)
                IN  /\ (r.type = "pick" /\ r.success) =>
                          /\ calls'[c].state = "resolved"
                          /\ calls'[c].value =
                                Some([windowId    |-> IF Get(r.data).windowId = None
                                                      THEN Null
                                                      ELSE Value(Get(Get(r.data).windowId)),
                                      appName     |-> Null,
                                      windowTitle |-> Null,
                                      bounds      |-> Value(Get(Get(r.data).bounds))])
                    /\ (r.type = "pick" /\ ~r.success) =>
                          /\ calls'[c].state = "rejected"
                          /\ calls'[c].error = r.error
                    /\ r.type \in {"ready", "scan", "error"} =>
                          calls'[c] = calls[c]]_vars

(* C15 witness: a pick() was resolved with a selection whose window id is  *)
(* null, and another pick() is pending.                                    *)
C15_Witness ==
    /\ \E c \in DOMAIN calls :
          /\ calls[c].kind = "pick"
          /\ calls[c].state = "resolved"
          /\ Get(calls[c].value).windowId = Null
    /\ \E c \in DOMAIN calls : PendingPick(c)

----------------------------------------------------------------------------
(* C16: a pending pick() that no pick response settles is rejected only by *)
(* its own timer, when it has been pending for PickTimeoutMs, and with the *)
(* timeout error; while it is pending its timer is armed with what is left *)
(* of the 60 seconds, and it does not stay pending forever.                *)
C16_PickTimesOutAtSixtySeconds ==
    /\ [][\A c \in DOMAIN calls :
            (/\ PendingPick(c)
             /\ calls'[c].state # "pending"
             /\ ~(bevent'.kind = "data" /\ "pick" \in EmittedTypes(bevent')))
            => /\ bevent'.kind = "timeout"
               /\ bevent'.call = c
               /\ calls[c].age = PickTimeoutMs
               /\ calls'[c].state = "rejected"
               /\ calls'[c].error = Some("Window selection timed out")]_vars
    /\ [](\A c \in DOMAIN calls :
            PendingPick(c) =>
               /\ calls[c].timer # None
               /\ calls[c].age + Get(calls[c].timer) = PickTimeoutMs)
    /\ \A c \in 1..MaxCalls : PendingPick(c) ~> ~PendingPick(c)

(* C16 witness: a pick() was rejected by its timer. *)
C16_Witness ==
    \E c \in DOMAIN calls :
        /\ calls[c].kind = "pick"
        /\ calls[c].state = "rejected"
        /\ calls[c].error = Some("Window selection timed out")
        /\ bevent.kind = "timeout"
        /\ bevent.call = c

----------------------------------------------------------------------------
PendingScan(c) ==
    c \in DOMAIN calls /\ calls[c].kind = "scan" /\ calls[c].state = "pending"

(* C17: for a pending scan(), a failing pick response rejects it with the  *)
(* error of that response; a successful pick response leaves the call, its *)
(* timer and its listener as they were; a scan response resolves it with   *)
(* the image size, observations and bounds of the response, or rejects it  *)
(* with the error of the response; nothing but a scan response resolves    *)
(* it; and while it is pending its timer holds what is left of the 30      *)
(* seconds since the call.                                                 *)
C17_ScanWaitsThroughPickSuccess ==
    /\ [][\A c \in DOMAIN calls : PendingScan(c) =>
            /\ calls'[c].state = "resolved" =>
                  bevent'.kind = "data" /\ "scan" \in EmittedTypes(bevent')
            /\ (bevent'.kind = "data" /\ ChunkOf(bevent').r # None) =>
                  LET r == Get(ChunkOf(bevent').r)
                  IN  /\ (r.type = "pick" /\ ~r.success) =>
                            /\ calls'[c].state = "rejected"
                            /\ calls'[c].error = r.error
                      /\ (r.type = "pick" /\ r.success) =>
                            /\ calls'[c] = calls[c]
                            /\ \E k \in DOMAIN listeners' :
                                  listeners'[k] = Listener("scan", c)
                      /\ (r.type = "scan" /\ r.success) =>
                            /\ calls'[c].state = "resolved"
                            /\ calls'[c].value =
                                  Some([image        |-> Get(r.data).image,
                                        observations |-> Get(r.data).observations,
                                        bounds       |-> Get(r.data).bounds])
                      /\ (r.type = "scan" /\ ~r.success) =>
                            /\ calls'[c].state = "rejected"
                            /\ calls'[c].error = r.error
                      /\ r.type \in {"ready", "error"} => calls'[c] = calls[c]]_vars
    /\ [](\A c \in DOMAIN calls :
            PendingScan(c) =>
               /\ calls[c].timer # None
               /\ calls[c].age + Get(calls[c].timer) = ScanTimeoutMs)

(* C17 witness: a scan() that has been pending for some time has just seen *)
(* the successful pick response written for it, and is still pending.      *)
C17_Witness ==
    /\ bevent.kind = "data"
    /\ ChunkOf(bevent).r # None
    /\ Get(ChunkOf(bevent).r).type = "pick"
    /\ Get(ChunkOf(bevent).r).success
    /\ PendingScan(bevent.call)
    /\ calls[bevent.call].age > 0

----------------------------------------------------------------------------
(* Call c was rejected by its own timer. *)
TimedOut(c) ==
    /\ c \in DOMAIN calls
    /\ calls[c].state = "rejected"
    /\ calls[c].error = Some(TimeoutMessage(calls[c].kind))

(* C18 as stated: a response the worker writes for a call that its timer   *)
(* has already rejected settles no call.                                   *)
C18_LateResponseSettlesNothing ==
    [][(bevent'.kind = "data" /\ TimedOut(bevent'.call)) =>
          \A d \in DOMAIN calls : calls'[d].state = calls[d].state]_vars

----------------------------------------------------------------------------
(* The process ended as stop() made it end: by the quit command it wrote   *)
(* (exit code 0) or by the signal of kill().                               *)
EndedByStop(exit) ==
    exit.code = Value(0) \/ exit.signal = Some("SIGTERM")

(* C19 as stated: once stop() has been called, the close listener of       *)
(* init() does not treat the exit stop() caused as a crash, whether the    *)
(* process reports exit code 0 or the signal that killed it.               *)
C19_ExitAfterStopIsNoCrash ==
    [][(/\ bevent'.kind = "close"
        /\ coord = "quit"
        /\ EndedByStop(Get(bevent'.detail))) => crashes' = crashes]_vars

----------------------------------------------------------------------------
CancelResponse == sendError("pick", "User cancelled window selection")

(* C20: when the worker's cancellation response arrives, nothing is added  *)
(* to what the user is shown, no call is resolved, and every pending       *)
(* pick() and scan() is rejected with the message of the response, which   *)
(* includes 'cancelled'.                                                   *)
C20_CancellationIsNotShown ==
    [][(bevent'.kind = "data" /\ ChunkOf(bevent').r = Some(CancelResponse)) =>
          /\ shown' = shown
          /\ \A c \in DOMAIN calls :
                /\ calls[c].state = "pending" =>
                      /\ calls'[c].state = "rejected"
                      /\ calls'[c].error = CancelResponse.error
                      /\ IncludesCancelled(Get(calls'[c].error))
                /\ calls[c].state # "pending" => calls'[c].state = calls[c].state]_vars

(* C20 witness: the cancellation has rejected a pick() and a scan() and    *)
(* the user has been shown nothing.                                        *)
C20_Witness ==
    /\ bevent.kind = "data"
    /\ ChunkOf(bevent).r = Some(CancelResponse)
    /\ shown = {}
    /\ \E c \in DOMAIN calls :
          calls[c].kind = "pick" /\ calls[c].error = CancelResponse.error
    /\ \E c \in DOMAIN calls :
          calls[c].kind = "scan" /\ calls[c].error = CancelResponse.error

----------------------------------------------------------------------------
(* The bounds of a scan's data belong to the window its image shows: they  *)
(* are the rect of the captured filter or the window list's bounds of that *)
(* filter's window.                                                        *)
BoundsOfImageWindow(data) ==
    data.bounds \in {Some(ContentRect(data.image)),
                     Some(WindowListBounds(WindowOf(data.image)))}

(* C28 as stated: in every successful scan response the bounds and the     *)
(* image are of the same window, also when the picker replaced the target  *)
(* while the capture was in flight.                                        *)
C28_BoundsMatchImage ==
    \A k \in DOMAIN stdout :
        IsScanSuccess(stdout[k]) => BoundsOfImageWindow(Get(stdout[k].data))

----------------------------------------------------------------------------
(* C29: once a target is set no step of the worker unsets it (the handling *)
(* of any command, a picker cancellation or start failure, a failed        *)
(* capture or recognition, termination), and a window handle is stored     *)
(* only while a target is set.                                             *)
C29_TargetIsNeverCleared ==
    /\ [][currentFilter # None => currentFilter' # None]_vars
    /\ [](currentWindowID # None => currentFilter # None)

(* C29 witness: with a target and its window handle set, a capture has     *)
(* failed, and the target and the handle are still there.                  *)
C29_Witness ==
    /\ event.kind = "captureThrows"
    /\ currentFilter # None
    /\ currentWindowID # None
    /\ \E k \in DOMAIN stdout : IsPickFailure(stdout[k])

----------------------------------------------------------------------------
(* C21 as stated: no failure is thrown past its caller uncaught, and a     *)
(* launch failure of the worker rejects start() with the launch error.     *)
C21_FailureRejectsTheCall ==
    /\ ~uncaught
    /\ child = "errored" =>
          /\ started.state = "rejected"
          /\ started.error = Some("spawn failed")

----------------------------------------------------------------------------
(* C27 as stated: when a hotkey handler calls pick() or scan(), no earlier *)
(* pick() or scan() is still pending.                                      *)
C27_OneCallOutstanding ==
    [][bevent'.kind \in {"pick", "scan"} =>
          \A c \in DOMAIN calls : calls[c].state # "pending"]_vars

----------------------------------------------------------------------------
(* The calls still pending, and the 'response' listeners of calls. *)
PendingCalls == {c \in DOMAIN calls : calls[c].state = "pending"}
CallListeners == {i \in DOMAIN listeners : listeners[i].kind # "onReady"}

(* C30 as stated: a call that has settled, in whatever way, has no         *)
(* listener registered and no timer armed, and the call listeners          *)
(* registered are as many as the calls pending.                            *)
C30_SettledCallsLeaveNothing ==
    /\ \A c \in DOMAIN calls :
          calls[c].state # "pending" =>
              /\ \A i \in DOMAIN listeners : listeners[i] # Listener(calls[c].kind, c)
              /\ calls[c].timer = None
    /\ Cardinality(CallListeners) = Cardinality(PendingCalls)

----------------------------------------------------------------------------
(* The observations of a rendered result that are no noise: pixel width at *)
(* least 10 and pixel height at least 8 on the surface rendered on.        *)
NotNoise(r) ==
    {k \in DOMAIN r.data.observations :
        /\ r.data.observations[k].boundingBox.width * r.surface.width >= Px(10)
        /\ r.data.observations[k].boundingBox.height * r.surface.height >= Px(8)}

(* C22: after a render, whatever the surface size, the container holds no  *)
(* element of an observation whose pixel width is below 10 or whose pixel  *)
(* height is below 8, exactly one element with its text for every other    *)
(* observation, and the elements are in the order of the observations.     *)
C22_NoiseIsNeverRendered ==
    rendered # None =>
        LET r == Get(rendered)
        IN  /\ \A i \in DOMAIN container :
                  /\ container[i].obs \in NotNoise(r)
                  /\ container[i].text = r.data.observations[container[i].obs].text
            /\ \A k \in NotNoise(r) :
                  Cardinality({i \in DOMAIN container : container[i].obs = k}) = 1
            /\ \A i, j \in DOMAIN container :
                  i < j => container[i].obs < container[j].obs

(* C22 witness: of two observations rendered on the small surface the      *)
(* first, 9.8 pixels wide, was dropped and the second, exactly 10 by 8     *)
(* pixels, is the only element.                                            *)
C22_Witness ==
    /\ rendered # None
    /\ Get(rendered).surface = [width |-> 200, height |-> 100]
    /\ Len(Get(rendered).data.observations) = 2
    /\ Get(rendered).data.observations[1].text = "narrow"
    /\ Get(rendered).data.observations[2].text = "level"
    /\ Len(container) = 1
    /\ container[1].obs = 2
    /\ container[1].width = Px(12)
    /\ container[1].height = Px(10)

----------------------------------------------------------------------------
(* C23: every element in the container has a font size, which is at least  *)
(* the floor of 8 pixels and at most the height of the element's box, the  *)
(* height handed to the text fitting.                                      *)
C23_FontSizeWithinFloorAndHeight ==
    \A i \in DOMAIN container :
        /\ container[i].fontSize # None
        /\ Get(container[i].fontSize) >= Px(8)
        /\ Get(container[i].fontSize) <= container[i].height

(* C23 witness: one element was shrunk to the floor, another to a size     *)
(* strictly between the floor and its height.                              *)
C23_Witness ==
    /\ \E i \in DOMAIN container : container[i].fontSize = Some(MIN_FONT_SIZE)
    /\ \E i \in DOMAIN container :
          /\ Get(container[i].fontSize) > MIN_FONT_SIZE
          /\ Get(container[i].fontSize) < container[i].height

----------------------------------------------------------------------------
(* C24: an element of an observation whose top corners have the same y,    *)
(* the right one to the right, has angle 0 and no rotation transform; an   *)
(* element has a rotation transform exactly when the angle computed from   *)
(* its observation's top corners is more than half a degree in magnitude,  *)
(* and the transform rotates by that angle.                                *)
C24_RotationOnlyAboveThreshold ==
    rendered # None =>
        \A i \in DOMAIN container :
            LET o == Get(rendered).data.observations[container[i].obs]
                angle == calculateRotation(o)
            IN  /\ (o.topLeft.y = o.topRight.y /\ o.topRight.x > o.topLeft.x) =>
                      (angle = 0 /\ container[i].transform = None)
                /\ container[i].transform # None <=> Abs(angle) * 2 > Degrees(1)
                /\ container[i].transform # None => container[i].transform = Some(angle)

(* C24 witness: an element tilted by less than half a degree has no        *)
(* transform, one tilted by more has one.                                  *)
C24_Witness ==
    /\ rendered # None
    /\ \E i \in DOMAIN container :
          /\ calculateRotation(Get(rendered).data.observations[container[i].obs]) # 0
          /\ container[i].transform = None
    /\ \E i \in DOMAIN container : container[i].transform # None

----------------------------------------------------------------------------
(* What the claim compares of the elements: text and geometry. *)
Geometry(children) ==
    [i \in DOMAIN children |->
        [text |-> children[i].text, left |-> children[i].left, top |-> children[i].top,
         width |-> children[i].width, height |-> children[i].height,
         transform |-> children[i].transform]]

(* C25: after a render the container holds the elements of the data        *)
(* rendered as an empty container would hold them, whatever it held        *)
(* before; and a render of the same data at the same surface size as the   *)
(* render before it leaves the elements with the same text and geometry.   *)
C25_RenderReplacesAndRepeats ==
    /\ [](rendered # None =>
            Geometry(container) =
                Geometry(renderOCRResults(<<>>, Get(rendered).data, Get(rendered).surface,
                                          [k \in 1..MaxObservations |-> 0])))
    /\ [][(rendered' # None /\ Get(rendered').again) =>
              Geometry(container') = Geometry(container)]_vars

(* C25 witness: a result of two elements was rendered again over its own   *)
(* two elements.                                                           *)
C25_Witness ==
    /\ rendered # None
    /\ Get(rendered).again
    /\ Get(rendered).replaced = 2
    /\ Len(container) = 2

----------------------------------------------------------------------------
(* C26: the line the bridge wrote for a Command is read by the worker as   *)
(* one line and decodes to a Command of the same action, the same          *)
(* languages in the same order and the same saveTo, a member that was      *)
(* absent being absent (nil) after decoding.                               *)
C26_CommandRoundTrips ==
    decoded # None =>
        /\ written # None
        /\ wire = <<>>
        /\ Get(decoded).command # None
        /\ Get(Get(decoded).command).action = Get(written).action
        /\ Get(Get(decoded).command).languages = Get(written).languages
        /\ Get(Get(decoded).command).saveTo = Get(written).saveTo

(* C26 witness: a scan command with two languages and a path holding a     *)
(* newline has been decoded.                                               *)
C26_Witness ==
    /\ decoded # None
    /\ Get(written).action = <<Word("scan")>>
    /\ Get(written).languages = Some(<< <<Word("ja")>>, <<Word("en")>> >>)
    /\ Get(written).saveTo = Some(<<Word("a"), NL, Word("b")>>)
    /\ Get(decoded).command # None
====
